---- MODULE Spec2Model ----
(***************************************************************************)
(* Lifecycle state machine of the machine orchestration layer              *)
(* (machine/src/lib.rs, trait MachineOps): vm_state_transfer and the four  *)
(* handlers it dispatches to (vm_start, vm_pause, vm_resume, vm_destroy),  *)
(* together with the vCPU threads that rendezvous with the controlling     *)
(* thread at the startup barrier.                                          *)
(***************************************************************************)
EXTENDS Integers, Sequences, FiniteSets, TLC

\* ---------------------------------------------------------------------
\* Bounds of the model
\* ---------------------------------------------------------------------
\* Largest number of vCPUs (cpus.len()) a machine of the model has.
MaxCpus == 3

\* Largest number of times vm_start is entered (each entry creates a Barrier).
MaxStarts == 2

\* Largest number of RAM ranges arch_ram_ranges returns.
MaxRanges == 3

\* Largest length of a device list of the configuration (pflashs, drives,
\* nets, consoles, devices).
MaxList == 2

\* Largest length of the allow-list syscall_whitelist() returns.
MaxRules == 2

\* Constants of pulseaudio.rs.
AUDIO_SAMPLE_RATE_44KHZ == 44100

AUDIO_SAMPLE_RATE_48KHZ == 48000

WINDOWS_SAMPLE_BASE_RATE == 128

\* Constant of scsi.rs.
SUPPORT_SCSI_MAX_LUN == 255

\* Largest number of parse_scsi_device calls on one vm_config.
MaxCalls == 2

\* ---------------------------------------------------------------------
\* Values
\* ---------------------------------------------------------------------
\* The machine states (enum KvmVmState, named by `use KvmVmState::*`).
KvmVmState == {"Created", "Running", "Paused", "Shutdown"}

\* Sub-state of one vCPU as its control operations leave it.
CpuLifecycleState == {"Created", "Running", "Paused", "Stopped"}

\* Indices of the vCPUs the model can hold.
CpuIds == 0 .. (MaxCpus - 1)

\* Identities of the barriers vm_start creates, one per entry.
BarrierIds == 1 .. MaxStarts

\* The outcome of a vm_state_transfer call: Ok or one of the errors.
NoResult == [kind |-> "None", index |-> -1]
OkResult == [kind |-> "Ok", index |-> -1]
ErrStateCheck == [kind |-> "StateCheckFailed", index |-> -1]
ErrIllegal == [kind |-> "IllegalTransform", index |-> -1]
ErrTransformFailed == [kind |-> "TransformFailed", index |-> -1]

\* "Failed to <op> vcpu{cpu_index}", chained under "Failed to <op> vm."
ErrVcpu(op, index) == [kind |-> "VcpuFailed_" \o op, index |-> index]

VARIABLES
    nr_vcpus,     \* cpus.len()
    vm_state,     \* *vm_state
    pc,           \* position of the controlling thread
    old_state,    \* argument old_state of the call in progress (or last call)
    new_state,    \* argument new_state of the call in progress (or last call)
    paused,       \* argument paused of vm_start
    cpu_index,    \* loop index of the handler in progress
    result,       \* what the last finished call returned
    trace,        \* the per-vCPU operations the current (or last) call invoked
    entry_state,  \* *vm_state when the current (or last) call was entered
    cpu_state,    \* sub-state of every vCPU
    nr_barriers,  \* number of barriers created so far
    cur_barrier,  \* the barrier of the vm_start in progress (or of the last one)
    barrier,      \* per barrier: count and generation_id
    ctl_gen,      \* generation the controlling thread saw when it blocked
    ctl_arrived,  \* the barriers the controlling thread has called wait() on
    thread        \* per barrier and vCPU: the thread CPU::start spawned

\* The callers of vm_state_transfer and the lock they serialize on.
VARIABLES
    phase,          \* "setup": one caller; "race": two callers, same request
    lock_owner,     \* the caller holding the state lock, 0 when it is free
    req,            \* old_state and new_state both callers request, and the
                    \* machine state from which they race
    caller_pc,      \* per caller: "ready", "locked", "calling" or "done"
    caller_result,  \* per caller: what its vm_state_transfer returned
    caller_ops      \* per caller: the per-vCPU operations its call invoked

\* init_memory
VARIABLES
    mem_in,          \* target_arch, is_migrate and the number of RAM ranges
    mem_pc,          \* the statement init_memory is at
    mem_index,       \* index of the mapping the insertion loop is at
    mem_events,      \* what the call has done so far, in order
    mem_regions,     \* the RAM subregions of sys_mem.root()
    mem_registered,  \* number of times sys_mem was registered for migration
    mem_result       \* what init_memory returned

\* init_vcpu
VARIABLES
    vcpu_in,           \* nr_cpus, fds and whether boot_cfg is Some
    vcpu_pc,           \* the statement init_vcpu is at
    vcpu_index,        \* vcpu_id / cpu_index of the loop in progress
    vcpu_cpus,         \* the vector cpus: per CPU its id and its fd
    vcpu_migration,    \* the CPU ids registered with the MigrationManager
    vcpu_realize,      \* the CPU indices realize was invoked on, in order
    vcpu_initialized,  \* the CPUs whose registers realize has initialized
    vcpu_result        \* what init_vcpu returned

\* add_devices
VARIABLES
    dev_cfg,       \* the device part of vm_config
    dev_stage,     \* the category add_devices is at
    dev_index,     \* index in the list of that category
    dev_trace,     \* the add operations invoked so far, in order
    dev_realized,  \* the devices added so far, in order
    dev_result     \* what add_devices returned

\* register_seccomp
VARIABLES
    sec_in,         \* syscall_whitelist() of the machine and balloon_enable
    sec_pc,         \* the statement register_seccomp is at
    sec_index,      \* index of the push loop in bpf_rules
    sec_rules,      \* the vector bpf_rules
    sec_filter,     \* the rules pushed into seccomp_filter, in order
    sec_installed,  \* the rules of the filter realize() installed
    sec_result      \* what register_seccomp returned

\* vm_pause on a platform chosen at build time
VARIABLES
    irq_in,     \* target_arch, and whether irq_chip is Some(..)
    irq_stops   \* the calls of irq_chip.stop() in the current vm_state_transfer

\* vm_start called on its own
VARIABLES
    start_caller  \* who called vm_start: "vm_state_transfer" or "run"

\* PulseStreamData
VARIABLES
    pulse_fmt,       \* self.stream_fmt
    pulse_rate,      \* self.ss.rate
    pulse_format,    \* self.ss.format
    pulse_simple,    \* self.simple.is_some()
    pulse_switched,  \* check_fmt_update has reconfigured for a received format
    pulse_seen,      \* the formats of unsupported size received so far
    pulse_last       \* the last send or receive: its format and what it did

\* parse_scsi_device
VARIABLES
    scsi_drives,  \* the keys of vm_config.drives
    scsi_args,    \* the arguments of the last call
    scsi_result,  \* what the last call returned
    scsi_calls    \* the number of calls made

lifevars == << nr_vcpus, vm_state, pc, old_state, new_state, paused, cpu_index,
               result, trace, entry_state, cpu_state, nr_barriers, cur_barrier,
               barrier, ctl_gen, ctl_arrived, thread >>

lockvars == << phase, lock_owner, req, caller_pc, caller_result, caller_ops >>

memvars == << mem_in, mem_pc, mem_index, mem_events, mem_regions,
              mem_registered, mem_result >>

vcpuvars == << vcpu_in, vcpu_pc, vcpu_index, vcpu_cpus, vcpu_migration,
               vcpu_realize, vcpu_initialized, vcpu_result >>

devvars == << dev_cfg, dev_stage, dev_index, dev_trace, dev_realized,
              dev_result >>

secvars == << sec_in, sec_pc, sec_index, sec_rules, sec_filter,
              sec_installed, sec_result >>

\* The state of the operations modelled after add_devices.
irqvars == << irq_in, irq_stops >>

pulsevars == << pulse_fmt, pulse_rate, pulse_format, pulse_simple,
                pulse_switched, pulse_seen, pulse_last >>

scsivars == << scsi_drives, scsi_args, scsi_result, scsi_calls >>

restvars == << secvars, irqvars, start_caller, pulsevars, scsivars >>

vars == << lifevars, lockvars, memvars, vcpuvars, devvars, restvars >>

ctlvars == << vm_state, pc, old_state, new_state, paused, cpu_index, result,
              trace, entry_state, cpu_state, nr_barriers, cur_barrier, ctl_gen,
              ctl_arrived >>

\* ---------------------------------------------------------------------
\* Pure parts of vm_state_transfer and its handlers
\* ---------------------------------------------------------------------
\* The state check: `if *vm_state != old_state { bail!(..) }`.
StateCheckFailsNever(cur, old) == FALSE

StateCheckFails(cur, old) == cur # old

\* The match on (old_state, new_state): the handler dispatched to.
DispatchAny(old, new) ==
    CASE new = "Running" -> "vm_start"
      [] new = "Paused" -> "vm_pause"
      [] new = "Shutdown" -> "vm_destroy"
      [] OTHER -> "illegal"

DispatchNoStart(old, new) ==
    CASE old = "Running" /\ new = "Paused" -> "vm_pause"
      [] old = "Paused" /\ new = "Running" -> "vm_resume"
      [] new = "Shutdown" -> "vm_destroy"
      [] OTHER -> "illegal"

Dispatch(old, new) ==
    CASE old = "Created" /\ new = "Running" -> "vm_start"
      [] old = "Running" /\ new = "Paused" -> "vm_pause"
      [] old = "Paused" /\ new = "Running" -> "vm_resume"
      [] new = "Shutdown" -> "vm_destroy"
      [] OTHER -> "illegal"

\* The paused flag vm_state_transfer hands to vm_start.
StartPausedFlagTrue == TRUE

StartPausedFlag == FALSE

\* Barrier::new((nr_vcpus + 1) as usize)
BarrierSizeNoController(n) == IF n = 0 THEN 1 ELSE n

BarrierSizeOneTooMany(n) == n + 2

BarrierSize(n) == n + 1

\* The state vm_start stores: Paused when started paused, else Running.
StartStateAlwaysRunning(p) == "Running"

StartState(p) == IF p THEN "Paused" ELSE "Running"

\* A fresh barrier, and a thread that does not exist.
NewBarrier == [count |-> 0, generation_id |-> 0]
NoThread == [st |-> "none", gen |-> 0]

\* Barrier::wait by a caller: the last arrival opens a new generation.
BarrierArrive(b, size) ==
    IF b.count + 1 < size
    THEN [count |-> b.count + 1, generation_id |-> b.generation_id]
    ELSE [count |-> 0, generation_id |-> b.generation_id + 1]

\* A caller that arrived in generation g blocks until the generation changes.
BarrierReleased(b, g) == b.generation_id # g

\* ---------------------------------------------------------------------
\* Initial state: a constructed machine with its vCPUs, nothing started
\* ---------------------------------------------------------------------
\* No caller races for the lock.
LockIdle ==
    /\ phase = "setup"
    /\ lock_owner = 0
    /\ req = [old |-> "Created", new |-> "Created", from |-> "Created"]
    /\ caller_pc = << "ready", "ready" >>
    /\ caller_result = << NoResult, NoResult >>
    /\ caller_ops = << << >>, << >> >>

\* init_memory is not under way.
MemIdle ==
    /\ mem_in = [arch |-> "x86_64", is_migrate |-> FALSE, ranges |-> 0]
    /\ mem_pc = "done"
    /\ mem_index = 0
    /\ mem_events = << >>
    /\ mem_regions = {}
    /\ mem_registered = 0
    /\ mem_result = [kind |-> "None", index |-> -1]

\* init_vcpu is not under way.
VcpuIdle ==
    /\ vcpu_in = [nr_cpus |-> 0, fds |-> << >>, boot_cfg |-> FALSE]
    /\ vcpu_pc = "done"
    /\ vcpu_index = 0
    /\ vcpu_cpus = << >>
    /\ vcpu_migration = << >>
    /\ vcpu_realize = << >>
    /\ vcpu_initialized = {}
    /\ vcpu_result = NoResult

\* add_devices is not under way.
DevIdle ==
    /\ dev_cfg = [serial |-> FALSE, pflashs |-> 0, drives |-> 0, nets |-> 0,
                  consoles |-> 0, balloon |-> FALSE, rng |-> FALSE,
                  devices |-> << >>]
    /\ dev_stage = "done"
    /\ dev_index = 0
    /\ dev_trace = << >>
    /\ dev_realized = << >>
    /\ dev_result = [kind |-> "None", label |-> ""]

\* register_seccomp is not under way.
SecIdle ==
    /\ sec_in = [base |-> << >>, balloon_enable |-> FALSE]
    /\ sec_pc = "done"
    /\ sec_index = 0
    /\ sec_rules = << >>
    /\ sec_filter = << >>
    /\ sec_installed = << >>
    /\ sec_result = [kind |-> "None", label |-> ""]

\* None of the operations modelled after add_devices is under way.
\* The build has no interrupt controller argument (x86_64).
IrqIdle ==
    /\ irq_in = [arch |-> "x86_64", irq_chip |-> FALSE]
    /\ irq_stops = 0

\* vm_start is reached through vm_state_transfer only.
RunIdle == start_caller = "vm_state_transfer"

\* No PulseStreamData is in use: the object as a successful init leaves it,
\* with the format ShmemStreamFmt::default() of the all-zero header.
PulseIdle ==
    /\ pulse_fmt = [rate |-> 0, size |-> 0]
    /\ pulse_rate = AUDIO_SAMPLE_RATE_44KHZ
    /\ pulse_format = "S16le"
    /\ pulse_simple = TRUE
    /\ pulse_switched = FALSE
    /\ pulse_seen = {}
    /\ pulse_last = [op |-> "init", fmt |-> pulse_fmt, wrote |-> FALSE]

\* No scsi device argument is parsed: vm_config holds no drive.
ScsiIdle ==
    /\ scsi_drives = {}
    /\ scsi_args = [parse_ok |-> TRUE, drive |-> "", has_id |-> FALSE,
                    has_bus |-> FALSE, target_ok |-> TRUE, lun |-> -1]
    /\ scsi_result = [kind |-> "None", path_on_host |-> ""]
    /\ scsi_calls = 0

RestIdle == SecIdle /\ IrqIdle /\ RunIdle /\ PulseIdle /\ ScsiIdle

\* The machine as constructed: state Created, no vCPU thread started.
LifeInit ==
    /\ nr_vcpus \in 0 .. MaxCpus
    /\ vm_state = "Created"
    /\ pc = "idle"
    /\ old_state = "Created"
    /\ new_state = "Created"
    /\ paused = FALSE
    /\ cpu_index = 0
    /\ result = NoResult
    /\ trace = << >>
    /\ entry_state = "Created"
    /\ cpu_state = [c \in CpuIds |-> "Created"]
    /\ nr_barriers = 0
    /\ cur_barrier = 0
    /\ barrier = [b \in BarrierIds |-> NewBarrier]
    /\ ctl_gen = 0
    /\ ctl_arrived = {}
    /\ thread = [b \in BarrierIds |-> [c \in CpuIds |-> NoThread]]

Init == LifeInit /\ LockIdle /\ MemIdle /\ VcpuIdle /\ DevIdle /\ RestIdle

\* ---------------------------------------------------------------------
\* vm_state_transfer: entry, state check and dispatch
\* ---------------------------------------------------------------------
Enter(old, new) ==
    /\ pc = "idle"
    /\ old_state' = old
    /\ new_state' = new
    /\ entry_state' = vm_state
    /\ trace' = << >>
    /\ cpu_index' = 0
    /\ UNCHANGED << nr_vcpus, vm_state, cpu_state, barrier, ctl_gen, ctl_arrived,
                    thread >>
    /\ IF StateCheckFails(vm_state, old)
       THEN /\ result' = ErrStateCheck
            /\ pc' = "idle"
            /\ UNCHANGED << paused, nr_barriers, cur_barrier >>
       ELSE LET h == Dispatch(old, new) IN
            IF h = "illegal"
            THEN /\ result' = ErrIllegal
                 /\ pc' = "idle"
                 /\ UNCHANGED << paused, nr_barriers, cur_barrier >>
            ELSE IF h = "vm_start"
            THEN \* let cpus_thread_barrier = Arc::new(Barrier::new(..))
                 /\ nr_barriers < MaxStarts
                 /\ result' = NoResult
                 /\ pc' = h
                 /\ paused' = StartPausedFlag
                 /\ nr_barriers' = nr_barriers + 1
                 /\ cur_barrier' = nr_barriers + 1
            ELSE /\ result' = NoResult
                 /\ pc' = h
                 /\ UNCHANGED << paused, nr_barriers, cur_barrier >>

vm_state_transfer == \E old \in KvmVmState, new \in KvmVmState : Enter(old, new)

\* ---------------------------------------------------------------------
\* Per-vCPU control operations (CPU::start, pause, resume, destroy)
\* ---------------------------------------------------------------------
\* The sub-state a successful control operation leaves the vCPU in.
SubStateAfter(op) ==
    CASE op = "start" -> StartState(paused)
      [] op = "pause" -> "Paused"
      [] op = "resume" -> "Running"
      [] op = "destroy" -> "Stopped"

\* The operation succeeded on vCPU c.
CpuOpOk(op, c) ==
    cpu_state' = [cpu_state EXCEPT ![c] = SubStateAfter(op)]

\* The operation failed on vCPU c; what it did to c before failing is open.
CpuOpErr(op, c) ==
    cpu_state' \in {cpu_state, [cpu_state EXCEPT ![c] = SubStateAfter(op)]}

\* `for (cpu_index, cpu) in cpus.iter().enumerate()`: the loop is over.
LoopDoneSkipLast(i, n) == i >= n - 1

LoopDone(i, n) == i >= n

\* The index the loop visits after index i.
NextIndex(i) == i + 1

\* The vCPU index the error message of a failed operation names.
ErrIndexFirst(i) == 0

ErrIndex(i) == i

\* One iteration of a handler's loop in which the operation succeeds.
LoopStepOk(h, op) ==
    /\ pc = h
    /\ ~LoopDone(cpu_index, nr_vcpus)
    /\ trace' = Append(trace, << op, cpu_index >>)
    /\ CpuOpOk(op, cpu_index)
    /\ cpu_index' = NextIndex(cpu_index)
    /\ UNCHANGED << nr_vcpus, vm_state, pc, old_state, new_state, paused,
                    result, entry_state, nr_barriers, cur_barrier, barrier,
                    ctl_gen, ctl_arrived >>

\* One iteration in which the operation fails: `?` returns the error chained
\* with "Failed to <op> vcpu{cpu_index}", and *vm_state is not written.
LoopStepErrAdvance(h, op) ==
    /\ pc = h
    /\ ~LoopDone(cpu_index, nr_vcpus)
    /\ trace' = Append(trace, << op, cpu_index >>)
    /\ CpuOpErr(op, cpu_index)
    /\ result' = ErrVcpu(op, ErrIndex(cpu_index))
    /\ pc' = "idle"
    /\ vm_state' = new_state
    /\ UNCHANGED << nr_vcpus, cpu_index, old_state, new_state, paused,
                    entry_state, nr_barriers, cur_barrier, barrier, ctl_gen,
                    ctl_arrived >>

LoopStepErrContinue(h, op) ==
    /\ pc = h
    /\ ~LoopDone(cpu_index, nr_vcpus)
    /\ trace' = Append(trace, << op, cpu_index >>)
    /\ CpuOpErr(op, cpu_index)
    /\ result' = ErrVcpu(op, ErrIndex(cpu_index))
    /\ pc' = IF LoopDone(NextIndex(cpu_index), nr_vcpus) THEN "idle" ELSE h
    /\ cpu_index' = NextIndex(cpu_index)
    /\ UNCHANGED << nr_vcpus, vm_state, old_state, new_state, paused,
                    entry_state, nr_barriers, cur_barrier, barrier, ctl_gen,
                    ctl_arrived >>

LoopStepErr(h, op) ==
    /\ pc = h
    /\ ~LoopDone(cpu_index, nr_vcpus)
    /\ trace' = Append(trace, << op, cpu_index >>)
    /\ CpuOpErr(op, cpu_index)
    /\ result' = ErrVcpu(op, ErrIndex(cpu_index))
    /\ pc' = "idle"
    /\ UNCHANGED << nr_vcpus, vm_state, cpu_index, old_state, new_state,
                    paused, entry_state, nr_barriers, cur_barrier, barrier,
                    ctl_gen, ctl_arrived >>

LoopStep(h, op) == LoopStepOk(h, op) \/ LoopStepErr(h, op)

\* ---------------------------------------------------------------------
\* vm_start
\* ---------------------------------------------------------------------
\* CPU::start(cpu, cpu_thread_barrier, paused) on cpus[cpu_index]: on success
\* the vCPU's thread exists and holds a clone of the barrier.
vm_start_cpu_ok ==
    /\ LoopStepOk("vm_start", "start")
    /\ thread' = [thread EXCEPT ![cur_barrier][cpu_index] =
                      [st |-> "spawned", gen |-> 0]]

vm_start_cpu_err == LoopStepErr("vm_start", "start") /\ UNCHANGED thread

vm_start_cpu == vm_start_cpu_ok \/ vm_start_cpu_err

\* After the loop: `*vm_state = Paused / Running`.
vm_start_set_state_early ==
    /\ pc = "vm_start"
    /\ vm_state' = StartState(paused)
    /\ pc' = "barrier_wait"
    /\ UNCHANGED << nr_vcpus, old_state, new_state, paused, cpu_index, result,
                    trace, entry_state, cpu_state, nr_barriers, cur_barrier,
                    barrier, ctl_gen, ctl_arrived, thread >>

vm_start_set_state ==
    /\ pc = "vm_start"
    /\ LoopDone(cpu_index, nr_vcpus)
    /\ vm_state' = StartState(paused)
    /\ pc' = "barrier_wait"
    /\ UNCHANGED << nr_vcpus, old_state, new_state, paused, cpu_index, result,
                    trace, entry_state, cpu_state, nr_barriers, cur_barrier,
                    barrier, ctl_gen, ctl_arrived, thread >>

\* `cpus_thread_barrier.wait()`: the controlling thread arrives.
vm_start_barrier_wait ==
    /\ pc = "barrier_wait"
    /\ ctl_gen' = barrier[cur_barrier].generation_id
    /\ ctl_arrived' = ctl_arrived \cup {cur_barrier}
    /\ barrier' = [barrier EXCEPT ![cur_barrier] =
                      BarrierArrive(@, BarrierSize(nr_vcpus))]
    /\ pc' = "barrier_blocked"
    /\ UNCHANGED << nr_vcpus, vm_state, old_state, new_state, paused,
                    cpu_index, result, trace, entry_state, cpu_state,
                    nr_barriers, cur_barrier, thread >>

\* wait() returns once the generation has changed; vm_start returns Ok(()).
vm_start_return ==
    /\ pc = "barrier_blocked"
    /\ BarrierReleased(barrier[cur_barrier], ctl_gen)
    /\ pc' = "post"
    /\ UNCHANGED << nr_vcpus, vm_state, old_state, new_state, paused,
                    cpu_index, result, trace, entry_state, cpu_state,
                    nr_barriers, cur_barrier, barrier, ctl_gen, ctl_arrived,
                    thread >>

\* ---------------------------------------------------------------------
\* The threads of the vCPUs
\* ---------------------------------------------------------------------
\* The thread of vCPU c reaches its synchronization point: wait() on its
\* clone of the barrier.
vcpu_thread_arrive(b, c) ==
    /\ thread[b][c].st = "spawned"
    /\ thread' = [thread EXCEPT ![b][c] =
                     [st |-> "waiting", gen |-> barrier[b].generation_id]]
    /\ barrier' = [barrier EXCEPT ![b] = BarrierArrive(@, BarrierSize(nr_vcpus))]
    /\ UNCHANGED << nr_vcpus, ctlvars >>

\* The thread of vCPU c gets past the barrier and enters guest execution.
vcpu_thread_pass(b, c) ==
    /\ thread[b][c].st = "waiting"
    /\ BarrierReleased(barrier[b], thread[b][c].gen)
    /\ thread' = [thread EXCEPT ![b][c] = [st |-> "guest", gen |-> @.gen]]
    /\ UNCHANGED << nr_vcpus, ctlvars, barrier >>

vcpu_thread ==
    \E b \in BarrierIds, c \in CpuIds :
        vcpu_thread_arrive(b, c) \/ vcpu_thread_pass(b, c)

\* ---------------------------------------------------------------------
\* vm_pause, vm_resume, vm_destroy
\* ---------------------------------------------------------------------
vm_pause_cpu == LoopStep("vm_pause", "pause") /\ UNCHANGED thread

vm_resume_cpu == LoopStep("vm_resume", "resume") /\ UNCHANGED thread

vm_destroy_cpu == LoopStep("vm_destroy", "destroy") /\ UNCHANGED thread

\* The state a handler stores after its loop.
HandlerState(h) ==
    CASE h = "vm_pause" -> "Paused"
      [] h = "vm_resume" -> "Running"
      [] h = "vm_destroy" -> "Shutdown"

\* After the loop: `*vm_state = ...; Ok(())`.
HandlerDone(h) ==
    /\ pc = h
    /\ LoopDone(cpu_index, nr_vcpus)
    /\ vm_state' = HandlerState(h)
    /\ pc' = "post"
    /\ UNCHANGED << nr_vcpus, old_state, new_state, paused, cpu_index, result,
                    trace, entry_state, cpu_state, nr_barriers, cur_barrier,
                    barrier, ctl_gen, ctl_arrived, thread >>

vm_pause_done == HandlerDone("vm_pause")

vm_resume_done == HandlerDone("vm_resume")

vm_destroy_done == HandlerDone("vm_destroy")

\* ---------------------------------------------------------------------
\* vm_state_transfer: the check after the dispatch
\* ---------------------------------------------------------------------
\* `if *vm_state != new_state { bail!(.. transform failed) }  Ok(())`
vm_state_transfer_post ==
    /\ pc = "post"
    /\ result' = IF vm_state # new_state THEN ErrTransformFailed ELSE OkResult
    /\ pc' = "idle"
    /\ UNCHANGED << nr_vcpus, vm_state, old_state, new_state, paused,
                    cpu_index, trace, entry_state, cpu_state, nr_barriers,
                    cur_barrier, barrier, ctl_gen, ctl_arrived, thread >>

\* What the lifecycle operations leave alone.
notlifevars == << lockvars, memvars, vcpuvars, devvars, restvars >>

Next ==
    \/ vm_state_transfer /\ UNCHANGED notlifevars
    \/ vm_start_cpu /\ UNCHANGED notlifevars
    \/ vm_start_set_state /\ UNCHANGED notlifevars
    \/ vm_start_barrier_wait /\ UNCHANGED notlifevars
    \/ vm_start_return /\ UNCHANGED notlifevars
    \/ vcpu_thread /\ UNCHANGED notlifevars
    \/ vm_pause_cpu /\ UNCHANGED notlifevars
    \/ vm_pause_done /\ UNCHANGED notlifevars
    \/ vm_resume_cpu /\ UNCHANGED notlifevars
    \/ vm_resume_done /\ UNCHANGED notlifevars
    \/ vm_destroy_cpu /\ UNCHANGED notlifevars
    \/ vm_destroy_done /\ UNCHANGED notlifevars
    \/ vm_state_transfer_post /\ UNCHANGED notlifevars

Spec == Init /\ [][Next]_vars

\* ---------------------------------------------------------------------
\* The Created->Running transition alone, with the scheduling of the threads
\* ---------------------------------------------------------------------
\* vm_state_transfer(.., Created, Running)
start_transfer == Enter("Created", "Running")

StartNext ==
    \/ start_transfer /\ UNCHANGED notlifevars
    \/ vm_start_cpu /\ UNCHANGED notlifevars
    \/ vm_start_set_state /\ UNCHANGED notlifevars
    \/ vm_start_barrier_wait /\ UNCHANGED notlifevars
    \/ vm_start_return /\ UNCHANGED notlifevars
    \/ vm_state_transfer_post /\ UNCHANGED notlifevars
    \/ vcpu_thread /\ UNCHANGED notlifevars

\* The controlling thread, once inside the call, keeps running.
StartProgress ==
    /\ \/ vm_start_cpu
       \/ vm_start_set_state
       \/ vm_start_barrier_wait
       \/ vm_start_return
       \/ vm_state_transfer_post
    /\ UNCHANGED notlifevars

\* Every vCPU thread that was started is scheduled: it reaches the barrier,
\* and leaves it once the barrier has opened.
StartSpec ==
    /\ Init
    /\ [][StartNext]_vars
    /\ WF_vars(StartProgress)
    /\ \A b \in BarrierIds, c \in CpuIds :
          /\ WF_vars(vcpu_thread_arrive(b, c) /\ UNCHANGED notlifevars)
          /\ WF_vars(vcpu_thread_pass(b, c) /\ UNCHANGED notlifevars)

TypeOK ==
    /\ nr_vcpus \in 0 .. MaxCpus
    /\ vm_state \in KvmVmState
    /\ pc \in {"idle", "vm_start", "barrier_wait", "barrier_blocked",
               "vm_pause", "vm_resume", "vm_destroy", "post"}
    /\ cpu_index \in 0 .. nr_vcpus
    /\ cpu_state \in [CpuIds -> CpuLifecycleState]
    /\ nr_barriers \in 0 .. MaxStarts

\* ---------------------------------------------------------------------
\* Two callers of vm_state_transfer, each holding the state lock around its
\* whole call; every per-vCPU operation succeeds
\* ---------------------------------------------------------------------
Callers == {1, 2}

\* What the callers and the lock leave alone.
notlockvars == << memvars, vcpuvars, devvars, restvars >>

vm_pause_cpu_ok == LoopStepOk("vm_pause", "pause") /\ UNCHANGED thread

vm_resume_cpu_ok == LoopStepOk("vm_resume", "resume") /\ UNCHANGED thread

vm_destroy_cpu_ok == LoopStepOk("vm_destroy", "destroy") /\ UNCHANGED thread

\* Before the race a single caller brings the machine to some state.
setup_transfer ==
    /\ phase = "setup"
    /\ vm_state_transfer
    /\ UNCHANGED lockvars

\* Both callers are about to request (old, new).
begin_race(old, new) ==
    /\ phase = "setup"
    /\ pc = "idle"
    /\ phase' = "race"
    /\ req' = [old |-> old, new |-> new, from |-> vm_state]
    /\ UNCHANGED << lifevars, lock_owner, caller_pc, caller_result,
                    caller_ops >>

\* Caller c takes the lock that protects vm_state.
lock_acquire(c) ==
    /\ phase = "race"
    /\ caller_pc[c] = "ready"
    /\ lock_owner = 0
    /\ lock_owner' = c
    /\ caller_pc' = [caller_pc EXCEPT ![c] = "locked"]
    /\ UNCHANGED << lifevars, phase, req, caller_result, caller_ops >>

\* Caller c, holding the lock, calls vm_state_transfer(.., old, new).
caller_enter(c) ==
    /\ caller_pc[c] = "locked"
    /\ lock_owner = c
    /\ Enter(req.old, req.new)
    /\ caller_pc' = [caller_pc EXCEPT ![c] = "calling"]
    /\ UNCHANGED << phase, lock_owner, req, caller_result, caller_ops >>

\* The call of caller c has returned: c drops the lock.
caller_return(c) ==
    /\ caller_pc[c] = "calling"
    /\ lock_owner = c
    /\ pc = "idle"
    /\ caller_result' = [caller_result EXCEPT ![c] = result]
    /\ caller_ops' = [caller_ops EXCEPT ![c] = trace]
    /\ caller_pc' = [caller_pc EXCEPT ![c] = "done"]
    /\ lock_owner' = 0
    /\ UNCHANGED << lifevars, phase, req >>

LockNext ==
    \/ setup_transfer /\ UNCHANGED notlockvars
    \/ (\E old \in KvmVmState, new \in KvmVmState : begin_race(old, new))
          /\ UNCHANGED notlockvars
    \/ (\E c \in Callers : lock_acquire(c)) /\ UNCHANGED notlockvars
    \/ (\E c \in Callers : caller_enter(c)) /\ UNCHANGED notlockvars
    \/ (\E c \in Callers : caller_return(c)) /\ UNCHANGED notlockvars
    \/ vm_start_cpu_ok /\ UNCHANGED notlifevars
    \/ vm_start_set_state /\ UNCHANGED notlifevars
    \/ vm_start_barrier_wait /\ UNCHANGED notlifevars
    \/ vm_start_return /\ UNCHANGED notlifevars
    \/ vcpu_thread /\ UNCHANGED notlifevars
    \/ vm_pause_cpu_ok /\ UNCHANGED notlifevars
    \/ vm_pause_done /\ UNCHANGED notlifevars
    \/ vm_resume_cpu_ok /\ UNCHANGED notlifevars
    \/ vm_resume_done /\ UNCHANGED notlifevars
    \/ vm_destroy_cpu_ok /\ UNCHANGED notlifevars
    \/ vm_destroy_done /\ UNCHANGED notlifevars
    \/ vm_state_transfer_post /\ UNCHANGED notlifevars

LockSpec == Init /\ [][LockNext]_vars

\* ---------------------------------------------------------------------
\* init_memory
\* ---------------------------------------------------------------------
\* The targets the code is compiled for (cfg(target_arch)).
Archs == {"x86_64", "aarch64"}

\* What init_memory returns.
MemOk == [kind |-> "Ok", index |-> -1]
MemErr(kind, index) == [kind |-> kind, index |-> index]

\* An entry of mem_events; index is the mapping's index, -1 when none.
MemEvent(name, index) == << name, index >>

\* The order of the statements of init_memory: the statement after `step`.
MemStepAfterRegisterFirst(step, in) ==
    CASE step = "begin" -> "register"
      [] step = "register" -> "mem_listener"
      [] step = "mem_listener" ->
            IF in.arch = "x86_64" THEN "io_listener"
            ELSE IF in.is_migrate THEN "return" ELSE "mmap"
      [] step = "io_listener" -> IF in.is_migrate THEN "return" ELSE "mmap"
      [] step = "mmap" -> "add"
      [] step = "add" -> "return"

MemStepAfterRamFirst(step, in) ==
    CASE step = "begin" -> IF in.is_migrate THEN "mem_listener" ELSE "mmap"
      [] step = "mmap" -> "add"
      [] step = "add" -> "mem_listener"
      [] step = "mem_listener" ->
            IF in.arch = "x86_64" THEN "io_listener" ELSE "register"
      [] step = "io_listener" -> "register"
      [] step = "register" -> "return"

MemStepAfterIgnoreMigrate(step, in) ==
    CASE step = "begin" -> "mem_listener"
      [] step = "mem_listener" ->
            IF in.arch = "x86_64" THEN "io_listener" ELSE "mmap"
      [] step = "io_listener" -> "mmap"
      [] step = "mmap" -> "add"
      [] step = "add" -> "register"
      [] step = "register" -> "return"

MemStepAfter(step, in) ==
    CASE step = "begin" -> "mem_listener"
      [] step = "mem_listener" ->
            IF in.arch = "x86_64" THEN "io_listener"
            ELSE IF in.is_migrate THEN "register" ELSE "mmap"
      [] step = "io_listener" -> IF in.is_migrate THEN "register" ELSE "mmap"
      [] step = "mmap" -> "add"
      [] step = "add" -> "register"
      [] step = "register" -> "return"

\* What init_memory leaves alone.
notmemvars == << lifevars, lockvars, vcpuvars, devvars, restvars >>

\* init_memory is called on a fresh address space.
MemStart ==
    /\ mem_in \in [arch : Archs, is_migrate : BOOLEAN, ranges : 0 .. MaxRanges]
    /\ mem_pc = MemStepAfter("begin", mem_in)
    /\ mem_index = 0
    /\ mem_events = << >>
    /\ mem_regions = {}
    /\ mem_registered = 0
    /\ mem_result = [kind |-> "None", index |-> -1]

MemInit ==
    /\ LifeInit
    /\ nr_vcpus = 0
    /\ LockIdle
    /\ MemStart
    /\ VcpuIdle
    /\ DevIdle
    /\ RestIdle

\* A statement of init_memory that fails: `.chain_err(..)?`.
MemFail(kind, index) ==
    /\ mem_result' = MemErr(kind, index)
    /\ mem_pc' = "done"
    /\ UNCHANGED << mem_in, mem_index, mem_events, mem_regions,
                    mem_registered >>

\* sys_mem.register_listener(Box::new(KvmMemoryListener::new(..)))
init_memory_mem_listener ==
    /\ mem_pc = "mem_listener"
    /\ \/ /\ mem_events' = Append(mem_events, MemEvent("mem_listener", -1))
          /\ mem_pc' = MemStepAfter("mem_listener", mem_in)
          /\ UNCHANGED << mem_in, mem_index, mem_regions, mem_registered,
                          mem_result >>
       \/ MemFail("MemListenerErr", -1)

\* x86_64: sys_io.register_listener(Box::new(KvmIoListener::default()))
init_memory_io_listener ==
    /\ mem_pc = "io_listener"
    /\ \/ /\ mem_events' = Append(mem_events, MemEvent("io_listener", -1))
          /\ mem_pc' = MemStepAfter("io_listener", mem_in)
          /\ UNCHANGED << mem_in, mem_index, mem_regions, mem_registered,
                          mem_result >>
       \/ MemFail("IoListenerErr", -1)

\* create_host_mmaps(&ram_ranges, &mem_config): all ranges mapped, or an error.
init_memory_mmap ==
    /\ mem_pc = "mmap"
    /\ \/ /\ mem_events' = Append(mem_events, MemEvent("mmap", -1))
          /\ mem_pc' = MemStepAfter("mmap", mem_in)
          /\ mem_index' = 0
          /\ UNCHANGED << mem_in, mem_regions, mem_registered, mem_result >>
       \/ MemFail("MmapErr", -1)

\* One iteration of `for mmap in mem_mappings.iter()`: add_subregion succeeds.
init_memory_add_ok ==
    /\ mem_pc = "add"
    /\ mem_index < mem_in.ranges
    /\ mem_events' = Append(mem_events, MemEvent("add", mem_index))
    /\ mem_regions' = mem_regions \cup {mem_index}
    /\ mem_index' = mem_index + 1
    /\ UNCHANGED << mem_in, mem_pc, mem_registered, mem_result >>

\* add_subregion fails: `.chain_err(|| ErrorKind::RegMemRegionErr(base, size))?`.
init_memory_add_err ==
    /\ mem_pc = "add"
    /\ mem_index < mem_in.ranges
    /\ MemFail("RegMemRegionErr", mem_index)

\* The loop over the mappings is over.
init_memory_add_done ==
    /\ mem_pc = "add"
    /\ mem_index >= mem_in.ranges
    /\ mem_pc' = MemStepAfter("add", mem_in)
    /\ UNCHANGED << mem_in, mem_index, mem_events, mem_regions,
                    mem_registered, mem_result >>

\* MigrationManager::register_memory_instance(sys_mem.clone())
init_memory_register ==
    /\ mem_pc = "register"
    /\ mem_registered' = mem_registered + 1
    /\ mem_events' = Append(mem_events, MemEvent("register", -1))
    /\ mem_pc' = MemStepAfter("register", mem_in)
    /\ UNCHANGED << mem_in, mem_index, mem_regions, mem_result >>

\* Ok(())
init_memory_return ==
    /\ mem_pc = "return"
    /\ mem_result' = MemOk
    /\ mem_pc' = "done"
    /\ UNCHANGED << mem_in, mem_index, mem_events, mem_regions,
                    mem_registered >>

MemNext ==
    \/ init_memory_mem_listener /\ UNCHANGED notmemvars
    \/ init_memory_io_listener /\ UNCHANGED notmemvars
    \/ init_memory_mmap /\ UNCHANGED notmemvars
    \/ init_memory_add_ok /\ UNCHANGED notmemvars
    \/ init_memory_add_err /\ UNCHANGED notmemvars
    \/ init_memory_add_done /\ UNCHANGED notmemvars
    \/ init_memory_register /\ UNCHANGED notmemvars
    \/ init_memory_return /\ UNCHANGED notmemvars

MemSpec == MemInit /\ [][MemNext]_vars

\* ---------------------------------------------------------------------
\* init_vcpu
\* ---------------------------------------------------------------------
\* The hypervisor fds a caller may pass: one more than the vCPUs it may ask
\* for, so that `fds` can be shorter, as long or longer than nr_cpus.
MaxFds == MaxCpus + 1

VcpuFds == 11 .. (10 + MaxFds)

\* The slices `fds` a caller may pass: distinct fds, in any order.
FdSlices ==
    UNION {{f \in [1 .. n -> VcpuFds] :
                \A i, j \in 1 .. n : f[i] = f[j] => i = j} : n \in 0 .. MaxFds}

\* Ok(cpus)
VcpuOk == [kind |-> "Ok", index |-> -1]

\* "Failed to realize arch cpu register for CPU {}/KVM"
RealizeErrIndexOneBased(index) == index + 1

RealizeErrIndex(index) == index

VcpuErr(index) == [kind |-> "RealizeFailed", index |-> RealizeErrIndex(index)]

\* fds[vcpu_id as usize] out of bounds: the thread panics.
VcpuPanic(index) == [kind |-> "Panic", index |-> index]

\* fds[vcpu_id as usize].clone(): slices are indexed from 0, sequences from 1.
FdForFirst(fds, vcpu_id) == fds[1]

FdFor(fds, vcpu_id) == fds[vcpu_id + 1]

\* CPU::new(fd, vcpu_id, arch_cpu, vm)
NewCpu(fds, vcpu_id) == [id |-> vcpu_id, fd |-> FdFor(fds, vcpu_id)]

\* `if let Some(boot_config) = boot_cfg`
VcpuAfterCreate(in) == IF in.boot_cfg THEN "realize" ELSE "return"

\* What init_vcpu leaves alone.
notvcpuvars == << lifevars, lockvars, memvars, devvars, restvars >>

\* init_vcpu is called: `let mut cpus = Vec::<Arc<CPU>>::new()`.
VcpuStart ==
    /\ vcpu_in \in [nr_cpus : 0 .. MaxCpus, fds : FdSlices, boot_cfg : BOOLEAN]
    /\ vcpu_pc = "create"
    /\ vcpu_index = 0
    /\ vcpu_cpus = << >>
    /\ vcpu_migration = << >>
    /\ vcpu_realize = << >>
    /\ vcpu_initialized = {}
    /\ vcpu_result = NoResult

VcpuInit ==
    /\ LifeInit
    /\ nr_vcpus = 0
    /\ LockIdle
    /\ MemIdle
    /\ VcpuStart
    /\ DevIdle
    /\ RestIdle

\* One iteration of `for vcpu_id in 0..nr_cpus`: the CPU is created, pushed
\* and registered with the MigrationManager.
init_vcpu_create ==
    /\ vcpu_pc = "create"
    /\ vcpu_index < vcpu_in.nr_cpus
    /\ vcpu_index < Len(vcpu_in.fds)
    /\ vcpu_cpus' = Append(vcpu_cpus, NewCpu(vcpu_in.fds, vcpu_index))
    /\ vcpu_migration' = Append(vcpu_migration, vcpu_cpus'[Len(vcpu_cpus')].id)
    /\ vcpu_index' = vcpu_index + 1
    /\ UNCHANGED << vcpu_in, vcpu_pc, vcpu_realize, vcpu_initialized,
                    vcpu_result >>

\* fds has no entry for vcpu_id: the index expression panics.
init_vcpu_create_panic ==
    /\ vcpu_pc = "create"
    /\ vcpu_index < vcpu_in.nr_cpus
    /\ vcpu_index >= Len(vcpu_in.fds)
    /\ vcpu_result' = VcpuPanic(vcpu_index)
    /\ vcpu_pc' = "done"
    /\ UNCHANGED << vcpu_in, vcpu_index, vcpu_cpus, vcpu_migration,
                    vcpu_realize, vcpu_initialized >>

\* The creation loop is over.
init_vcpu_create_done ==
    /\ vcpu_pc = "create"
    /\ vcpu_index >= vcpu_in.nr_cpus
    /\ vcpu_pc' = VcpuAfterCreate(vcpu_in)
    /\ vcpu_index' = 0
    /\ UNCHANGED << vcpu_in, vcpu_cpus, vcpu_migration, vcpu_realize,
                    vcpu_initialized, vcpu_result >>

\* One iteration of `for cpu_index in 0..nr_cpus as usize`: realize returns Ok.
init_vcpu_realize_ok ==
    /\ vcpu_pc = "realize"
    /\ vcpu_index < vcpu_in.nr_cpus
    /\ vcpu_realize' = Append(vcpu_realize, vcpu_cpus[vcpu_index + 1].id)
    /\ vcpu_initialized' = vcpu_initialized \cup {vcpu_cpus[vcpu_index + 1].id}
    /\ vcpu_index' = vcpu_index + 1
    /\ UNCHANGED << vcpu_in, vcpu_pc, vcpu_cpus, vcpu_migration, vcpu_result >>

\* realize returns Err: `.chain_err(..)?` leaves init_vcpu.
init_vcpu_realize_err ==
    /\ vcpu_pc = "realize"
    /\ vcpu_index < vcpu_in.nr_cpus
    /\ vcpu_realize' = Append(vcpu_realize, vcpu_cpus[vcpu_index + 1].id)
    /\ vcpu_result' = VcpuErr(vcpu_index)
    /\ vcpu_pc' = "done"
    /\ UNCHANGED << vcpu_in, vcpu_index, vcpu_cpus, vcpu_migration,
                    vcpu_initialized >>

\* The realize loop is over.
init_vcpu_realize_done ==
    /\ vcpu_pc = "realize"
    /\ vcpu_index >= vcpu_in.nr_cpus
    /\ vcpu_pc' = "return"
    /\ UNCHANGED << vcpu_in, vcpu_index, vcpu_cpus, vcpu_migration,
                    vcpu_realize, vcpu_initialized, vcpu_result >>

\* Ok(cpus)
init_vcpu_return ==
    /\ vcpu_pc = "return"
    /\ vcpu_result' = VcpuOk
    /\ vcpu_pc' = "done"
    /\ UNCHANGED << vcpu_in, vcpu_index, vcpu_cpus, vcpu_migration,
                    vcpu_realize, vcpu_initialized >>

VcpuNext ==
    \/ init_vcpu_create /\ UNCHANGED notvcpuvars
    \/ init_vcpu_create_panic /\ UNCHANGED notvcpuvars
    \/ init_vcpu_create_done /\ UNCHANGED notvcpuvars
    \/ init_vcpu_realize_ok /\ UNCHANGED notvcpuvars
    \/ init_vcpu_realize_err /\ UNCHANGED notvcpuvars
    \/ init_vcpu_realize_done /\ UNCHANGED notvcpuvars
    \/ init_vcpu_return /\ UNCHANGED notvcpuvars

VcpuSpec == VcpuInit /\ [][VcpuNext]_vars

\* ---------------------------------------------------------------------
\* add_devices
\* ---------------------------------------------------------------------
\* The device type names a generic `devices` entry may carry: the one
\* add_devices matches, and one it does not.
DeviceTypes == {"vhost-vsock-device", "unknown-device"}

\* The `devices` lists of a configuration.
DeviceLists == UNION {[1 .. n -> DeviceTypes] : n \in 0 .. MaxList}

\* The configurations add_devices is called with; an absent list (None) is
\* a list of length 0.
DevConfigs ==
    [serial : BOOLEAN, pflashs : 0 .. MaxList, drives : 0 .. MaxList,
     nets : 0 .. MaxList, consoles : 0 .. MaxList, balloon : BOOLEAN,
     rng : BOOLEAN, devices : DeviceLists]

\* The order of the statements of add_devices: the category after `stage`.
DevStageAfterNetFirst(stage) ==
    CASE stage = "begin" -> "RTC"
      [] stage = "RTC" -> "serial"
      [] stage = "serial" -> "pflash"
      [] stage = "pflash" -> "net"
      [] stage = "net" -> "block"
      [] stage = "block" -> "console"
      [] stage = "console" -> "balloon"
      [] stage = "balloon" -> "rng"
      [] stage = "rng" -> "device"
      [] stage = "device" -> "return"

DevStageAfter(stage) ==
    CASE stage = "begin" -> "RTC"
      [] stage = "RTC" -> "serial"
      [] stage = "serial" -> "pflash"
      [] stage = "pflash" -> "block"
      [] stage = "block" -> "net"
      [] stage = "net" -> "console"
      [] stage = "console" -> "balloon"
      [] stage = "balloon" -> "rng"
      [] stage = "rng" -> "device"
      [] stage = "device" -> "return"

\* How many add operations a category asks for: add_rtc_device is called
\* unconditionally, the others under `if let Some(..)` and `for .. in ..`.
StageCount(cfg, stage) ==
    CASE stage = "RTC" -> 1
      [] stage = "serial" -> IF cfg.serial THEN 1 ELSE 0
      [] stage = "pflash" -> cfg.pflashs
      [] stage = "block" -> cfg.drives
      [] stage = "net" -> cfg.nets
      [] stage = "console" -> cfg.consoles
      [] stage = "balloon" -> IF cfg.balloon THEN 1 ELSE 0
      [] stage = "rng" -> IF cfg.rng THEN 1 ELSE 0
      [] stage = "device" -> Len(cfg.devices)

\* The categories whose add operation is a hook called by add_devices itself.
HookStages ==
    {"RTC", "serial", "pflash", "block", "net", "console", "balloon", "rng"}

\* The categories whose failure is chained with ErrorKind::AddDevErr.
WrappedStages ==
    {"RTC", "serial", "pflash", "block", "net", "console", "balloon"}

\* An add operation: the category and the index in the category's list.
DevOp(stage, index) == [stage |-> stage, index |-> index]

\* Ok(())
DevOk == [kind |-> "Ok", label |-> ""]

\* What `?` returns when the add operation of `stage` fails.
DevErr(stage) ==
    IF stage \in WrappedStages
    THEN [kind |-> "AddDevErr", label |-> stage]
    ELSE [kind |-> "HookErr", label |-> ""]

\* bail!("Unsupported device: {:?}", dev.0.as_str())
DevUnsupported(type) == [kind |-> "Unsupported", label |-> type]

\* Where add_devices is after a failing add operation: `?` returns.
DevFailStepContinue(stage, index) == [stage |-> stage, index |-> index + 1]

DevFailStep(stage, index) == [stage |-> "done", index |-> index]

\* What add_devices leaves alone.
notdevvars == << lifevars, lockvars, memvars, vcpuvars, restvars >>

\* add_devices is called on a machine with no peripheral device.
DevStart ==
    /\ dev_cfg \in DevConfigs
    /\ dev_stage = DevStageAfter("begin")
    /\ dev_index = 0
    /\ dev_trace = << >>
    /\ dev_realized = << >>
    /\ dev_result = [kind |-> "None", label |-> ""]

DevInit ==
    /\ LifeInit
    /\ nr_vcpus = 0
    /\ LockIdle
    /\ MemIdle
    /\ VcpuIdle
    /\ DevStart
    /\ RestIdle

\* The add operation of a hook category returns Ok.
add_devices_add_ok ==
    /\ dev_stage \in HookStages
    /\ dev_index < StageCount(dev_cfg, dev_stage)
    /\ dev_trace' = Append(dev_trace, DevOp(dev_stage, dev_index))
    /\ dev_realized' = Append(dev_realized, DevOp(dev_stage, dev_index))
    /\ dev_index' = dev_index + 1
    /\ UNCHANGED << dev_cfg, dev_stage, dev_result >>

\* The add operation of a hook category returns Err.
add_devices_add_err ==
    /\ dev_stage \in HookStages
    /\ dev_index < StageCount(dev_cfg, dev_stage)
    /\ dev_trace' = Append(dev_trace, DevOp(dev_stage, dev_index))
    /\ dev_result' = DevErr(dev_stage)
    /\ dev_stage' = DevFailStep(dev_stage, dev_index).stage
    /\ dev_index' = DevFailStep(dev_stage, dev_index).index
    /\ UNCHANGED << dev_cfg, dev_realized >>

\* "vhost-vsock-device" => add_virtio_vsock(cfg_args) returns Ok.
add_devices_vsock_ok ==
    /\ dev_stage = "device"
    /\ dev_index < StageCount(dev_cfg, dev_stage)
    /\ dev_cfg.devices[dev_index + 1] = "vhost-vsock-device"
    /\ dev_trace' = Append(dev_trace, DevOp(dev_stage, dev_index))
    /\ dev_realized' = Append(dev_realized, DevOp(dev_stage, dev_index))
    /\ dev_index' = dev_index + 1
    /\ UNCHANGED << dev_cfg, dev_stage, dev_result >>

\* add_virtio_vsock fails: parse_vsock or realize_virtio_mmio_device.
add_devices_vsock_err ==
    /\ dev_stage = "device"
    /\ dev_index < StageCount(dev_cfg, dev_stage)
    /\ dev_cfg.devices[dev_index + 1] = "vhost-vsock-device"
    /\ dev_trace' = Append(dev_trace, DevOp(dev_stage, dev_index))
    /\ dev_result' = DevErr(dev_stage)
    /\ dev_stage' = DevFailStep(dev_stage, dev_index).stage
    /\ dev_index' = DevFailStep(dev_stage, dev_index).index
    /\ UNCHANGED << dev_cfg, dev_realized >>

\* _ => bail!("Unsupported device: ..")
add_devices_unsupported ==
    /\ dev_stage = "device"
    /\ dev_index < StageCount(dev_cfg, dev_stage)
    /\ dev_cfg.devices[dev_index + 1] # "vhost-vsock-device"
    /\ dev_result' = DevUnsupported(dev_cfg.devices[dev_index + 1])
    /\ dev_stage' = "done"
    /\ UNCHANGED << dev_cfg, dev_index, dev_trace, dev_realized >>

\* The category is absent, or its list is used up: the next statement.
add_devices_next_stage ==
    /\ dev_stage \in HookStages \cup {"device"}
    /\ dev_index >= StageCount(dev_cfg, dev_stage)
    /\ dev_stage' = DevStageAfter(dev_stage)
    /\ dev_index' = 0
    /\ UNCHANGED << dev_cfg, dev_trace, dev_realized, dev_result >>

\* Ok(())
add_devices_return ==
    /\ dev_stage = "return"
    /\ dev_result' = DevOk
    /\ dev_stage' = "done"
    /\ UNCHANGED << dev_cfg, dev_index, dev_trace, dev_realized >>

DevNext ==
    \/ add_devices_add_ok /\ UNCHANGED notdevvars
    \/ add_devices_add_err /\ UNCHANGED notdevvars
    \/ add_devices_vsock_ok /\ UNCHANGED notdevvars
    \/ add_devices_vsock_err /\ UNCHANGED notdevvars
    \/ add_devices_unsupported /\ UNCHANGED notdevvars
    \/ add_devices_next_stage /\ UNCHANGED notdevvars
    \/ add_devices_return /\ UNCHANGED notdevvars

DevSpec == DevInit /\ [][DevNext]_vars

\* ---------------------------------------------------------------------
\* register_seccomp
\* ---------------------------------------------------------------------
\* The rules balloon_allow_list appends, and the other rules a machine's
\* syscall_whitelist may hold (it may hold the balloon's rules as well).
BalloonRules == << "balloon_rule_a", "balloon_rule_b" >>

BpfRules == {"rule_a", "rule_b", "balloon_rule_a", "balloon_rule_b"}

\* The allow-lists syscall_whitelist() may return.
Whitelists == UNION {[1 .. n -> BpfRules] : n \in 0 .. MaxRules}

\* balloon_allow_list(&mut bpf_rules)
balloon_allow_list(rules) == rules \o BalloonRules

\* `if balloon_enable { balloon_allow_list(&mut bpf_rules); }`
AllowListAlwaysBalloon(rules, balloon_enable) == balloon_allow_list(rules)

AllowList(rules, balloon_enable) ==
    IF balloon_enable THEN balloon_allow_list(rules) ELSE rules

\* Ok(())
SecOk == [kind |-> "Ok", label |-> ""]

\* .chain_err(|| "Failed to init seccomp filter.")?
SecErr == [kind |-> "Err", label |-> "Failed to init seccomp filter."]

\* What register_seccomp leaves alone.
notsecvars == << lifevars, lockvars, memvars, vcpuvars, devvars, irqvars,
                start_caller, pulsevars, scsivars >>

\* register_seccomp is called: the filter is new and bpf_rules holds
\* self.syscall_whitelist().
SecStart ==
    /\ sec_in \in [base : Whitelists, balloon_enable : BOOLEAN]
    /\ sec_pc = "balloon"
    /\ sec_index = 0
    /\ sec_rules = sec_in.base
    /\ sec_filter = << >>
    /\ sec_installed = << >>
    /\ sec_result = [kind |-> "None", label |-> ""]

SecInit ==
    /\ LifeInit
    /\ nr_vcpus = 0
    /\ LockIdle
    /\ MemIdle
    /\ VcpuIdle
    /\ DevIdle
    /\ SecStart
    /\ IrqIdle
    /\ RunIdle
    /\ PulseIdle
    /\ ScsiIdle

\* `if balloon_enable { balloon_allow_list(&mut bpf_rules); }`
register_seccomp_allow_list ==
    /\ sec_pc = "balloon"
    /\ sec_rules' = AllowList(sec_rules, sec_in.balloon_enable)
    /\ sec_pc' = "push"
    /\ sec_index' = 0
    /\ UNCHANGED << sec_in, sec_filter, sec_installed, sec_result >>

\* One iteration of `for bpf_rule in &mut bpf_rules`.
register_seccomp_push ==
    /\ sec_pc = "push"
    /\ sec_index < Len(sec_rules)
    /\ sec_filter' = Append(sec_filter, sec_rules[sec_index + 1])
    /\ sec_index' = sec_index + 1
    /\ UNCHANGED << sec_in, sec_pc, sec_rules, sec_installed, sec_result >>

\* The push loop is over.
register_seccomp_push_done ==
    /\ sec_pc = "push"
    /\ sec_index >= Len(sec_rules)
    /\ sec_pc' = "realize"
    /\ UNCHANGED << sec_in, sec_index, sec_rules, sec_filter, sec_installed,
                    sec_result >>

\* seccomp_filter.realize() returns Ok: the filter is installed.
register_seccomp_realize_ok ==
    /\ sec_pc = "realize"
    /\ sec_installed' = sec_filter
    /\ sec_pc' = "return"
    /\ UNCHANGED << sec_in, sec_index, sec_rules, sec_filter, sec_result >>

\* seccomp_filter.realize() returns Err: `.chain_err(..)?`.
register_seccomp_realize_err ==
    /\ sec_pc = "realize"
    /\ sec_result' = SecErr
    /\ sec_pc' = "done"
    /\ UNCHANGED << sec_in, sec_index, sec_rules, sec_filter, sec_installed >>

\* Ok(())
register_seccomp_return ==
    /\ sec_pc = "return"
    /\ sec_result' = SecOk
    /\ sec_pc' = "done"
    /\ UNCHANGED << sec_in, sec_index, sec_rules, sec_filter, sec_installed >>

SecNext ==
    \/ register_seccomp_allow_list /\ UNCHANGED notsecvars
    \/ register_seccomp_push /\ UNCHANGED notsecvars
    \/ register_seccomp_push_done /\ UNCHANGED notsecvars
    \/ register_seccomp_realize_ok /\ UNCHANGED notsecvars
    \/ register_seccomp_realize_err /\ UNCHANGED notsecvars
    \/ register_seccomp_return /\ UNCHANGED notsecvars

SecSpec == SecInit /\ [][SecNext]_vars

\* ---------------------------------------------------------------------
\* vm_pause with the interrupt controller of the platform
\* ---------------------------------------------------------------------
\* The builds and arguments: x86_64 has no irq_chip argument, aarch64 passes
\* an Option that is Some or None.
IrqPlatforms ==
    {[arch |-> "x86_64", irq_chip |-> FALSE],
     [arch |-> "aarch64", irq_chip |-> TRUE],
     [arch |-> "aarch64", irq_chip |-> FALSE]}

\* The statement of vm_pause after its loop.
PauseAfterLoopNoIrq(arch) == "vm_pause_set"

PauseAfterLoop(arch) ==
    IF arch = "aarch64" THEN "vm_pause_irq" ELSE "vm_pause_set"

\* What the lifecycle with the interrupt controller leaves alone.
notpausevars == << lockvars, memvars, vcpuvars, devvars, secvars, start_caller,
                  pulsevars, scsivars >>

PauseInit ==
    /\ LifeInit
    /\ LockIdle
    /\ MemIdle
    /\ VcpuIdle
    /\ DevIdle
    /\ SecIdle
    /\ RunIdle
    /\ PulseIdle
    /\ ScsiIdle
    /\ irq_in \in IrqPlatforms
    /\ irq_stops = 0

\* vm_state_transfer(.., Created, Running)
irq_start_transfer ==
    /\ Enter("Created", "Running")
    /\ irq_stops' = 0
    /\ UNCHANGED irq_in

\* vm_state_transfer(.., Running, Paused)
pause_transfer ==
    /\ Enter("Running", "Paused")
    /\ irq_stops' = 0
    /\ UNCHANGED irq_in

\* The loop of vm_pause is over.
vm_pause_loop_done ==
    /\ pc = "vm_pause"
    /\ LoopDone(cpu_index, nr_vcpus)
    /\ pc' = PauseAfterLoop(irq_in.arch)
    /\ UNCHANGED << nr_vcpus, vm_state, old_state, new_state, paused,
                    cpu_index, result, trace, entry_state, cpu_state,
                    nr_barriers, cur_barrier, barrier, ctl_gen, ctl_arrived,
                    thread, irqvars >>

\* aarch64: irq_chip.as_ref().unwrap().stop()
vm_pause_irq_stop ==
    /\ pc = "vm_pause_irq"
    /\ irq_in.irq_chip
    /\ irq_stops' = irq_stops + 1
    /\ pc' = "vm_pause_set"
    /\ UNCHANGED << nr_vcpus, vm_state, old_state, new_state, paused,
                    cpu_index, result, trace, entry_state, cpu_state,
                    nr_barriers, cur_barrier, barrier, ctl_gen, ctl_arrived,
                    thread, irq_in >>

\* aarch64: irq_chip is None and unwrap() panics.
vm_pause_irq_panic ==
    /\ pc = "vm_pause_irq"
    /\ ~irq_in.irq_chip
    /\ pc' = "panicked"
    /\ UNCHANGED << nr_vcpus, vm_state, old_state, new_state, paused,
                    cpu_index, result, trace, entry_state, cpu_state,
                    nr_barriers, cur_barrier, barrier, ctl_gen, ctl_arrived,
                    thread, irqvars >>

\* `*vm_state = KvmVmState::Paused; Ok(())`
vm_pause_set_state ==
    /\ pc = "vm_pause_set"
    /\ vm_state' = HandlerState("vm_pause")
    /\ pc' = "post"
    /\ UNCHANGED << nr_vcpus, old_state, new_state, paused, cpu_index, result,
                    trace, entry_state, cpu_state, nr_barriers, cur_barrier,
                    barrier, ctl_gen, ctl_arrived, thread, irqvars >>

PauseNext ==
    \/ irq_start_transfer /\ UNCHANGED notpausevars
    \/ vm_start_cpu /\ UNCHANGED notlifevars
    \/ vm_start_set_state /\ UNCHANGED notlifevars
    \/ vm_start_barrier_wait /\ UNCHANGED notlifevars
    \/ vm_start_return /\ UNCHANGED notlifevars
    \/ vcpu_thread /\ UNCHANGED notlifevars
    \/ pause_transfer /\ UNCHANGED notpausevars
    \/ vm_pause_cpu /\ UNCHANGED notlifevars
    \/ vm_pause_loop_done /\ UNCHANGED notpausevars
    \/ vm_pause_irq_stop /\ UNCHANGED notpausevars
    \/ vm_pause_irq_panic /\ UNCHANGED notpausevars
    \/ vm_pause_set_state /\ UNCHANGED notpausevars
    \/ vm_state_transfer_post /\ UNCHANGED notlifevars

PauseSpec == PauseInit /\ [][PauseNext]_vars

\* ---------------------------------------------------------------------
\* vm_start called by the machine's run(paused), next to vm_state_transfer
\* ---------------------------------------------------------------------
\* What these calls leave alone.
notrunvars == << lockvars, memvars, vcpuvars, devvars, secvars, irqvars,
                pulsevars, scsivars >>

\* vm_start(paused, cpus, vm_state), called directly on a machine that is
\* not started yet: `let cpus_thread_barrier = Arc::new(Barrier::new(..))`.
run_vm_start(p) ==
    /\ pc = "idle"
    /\ vm_state = "Created"
    /\ nr_barriers < MaxStarts
    /\ paused' = p
    /\ nr_barriers' = nr_barriers + 1
    /\ cur_barrier' = nr_barriers + 1
    /\ pc' = "vm_start"
    /\ cpu_index' = 0
    /\ trace' = << >>
    /\ result' = NoResult
    /\ entry_state' = vm_state
    /\ start_caller' = "run"
    /\ UNCHANGED << nr_vcpus, vm_state, old_state, new_state, cpu_state,
                    barrier, ctl_gen, ctl_arrived, thread >>

\* vm_state_transfer(.., Created, Running) and (.., Created, Paused)
run_vm_state_transfer ==
    /\ \E new \in {"Running", "Paused"} : Enter("Created", new)
    /\ start_caller' = "vm_state_transfer"

\* wait() returns to vm_start, which returns Ok(()) to vm_state_transfer.
run_transfer_return ==
    /\ start_caller = "vm_state_transfer"
    /\ vm_start_return
    /\ UNCHANGED start_caller

\* wait() returns to vm_start, which returns Ok(()) to its direct caller.
run_vm_start_return ==
    /\ start_caller = "run"
    /\ pc = "barrier_blocked"
    /\ BarrierReleased(barrier[cur_barrier], ctl_gen)
    /\ result' = OkResult
    /\ pc' = "idle"
    /\ UNCHANGED << nr_vcpus, vm_state, old_state, new_state, paused,
                    cpu_index, trace, entry_state, cpu_state, nr_barriers,
                    cur_barrier, barrier, ctl_gen, ctl_arrived, thread,
                    start_caller >>

RunNext ==
    \/ (\E p \in BOOLEAN : run_vm_start(p)) /\ UNCHANGED notrunvars
    \/ run_vm_state_transfer /\ UNCHANGED notrunvars
    \/ vm_start_cpu /\ UNCHANGED notlifevars
    \/ vm_start_set_state /\ UNCHANGED notlifevars
    \/ vm_start_barrier_wait /\ UNCHANGED notlifevars
    \/ run_transfer_return /\ UNCHANGED notrunvars
    \/ run_vm_start_return /\ UNCHANGED notrunvars
    \/ vcpu_thread /\ UNCHANGED notlifevars
    \/ vm_state_transfer_post /\ UNCHANGED notlifevars

RunSpec == Init /\ [][RunNext]_vars

\* ---------------------------------------------------------------------
\* PulseStreamData: check_fmt_update, send, receive
\* ---------------------------------------------------------------------
\* The stream formats a StreamData may carry: the rate code and the sample
\* size of ShmemStreamFmt (its other fields only tell formats apart).
StreamFmts == [rate : {0, 1, 129}, size : {0, 16, 24, 32}]

\* `match recv_data.fmt.size { 16 => .., 24 => .., 32 => .., _ => .. }`
SizeSupportedAny(size) == TRUE

SizeSupported(size) == size \in {16, 24, 32}

SampleFormat(size, old) ==
    CASE size = 16 -> "S16le"
      [] size = 24 -> "S24le"
      [] size = 32 -> "S32le"
      [] OTHER -> old

\* The rate check_fmt_update computes from the rate code of the format.
SampleRate(code) ==
    (IF code >= WINDOWS_SAMPLE_BASE_RATE
     THEN AUDIO_SAMPLE_RATE_44KHZ
     ELSE AUDIO_SAMPLE_RATE_48KHZ) * (code % WINDOWS_SAMPLE_BASE_RATE)

\* check_fmt_update(recv_data) on the state st; `compatible` is what
\* channel_map.is_compatible_with_sample_spec returns, `opened` whether
\* Simple::new succeeds.
check_fmt_update(st, fmt, compatible, opened) ==
    IF st.fmt = fmt
    THEN st
    ELSE LET rate1 == IF SizeSupported(fmt.size) THEN SampleRate(fmt.rate) ELSE 0
             rate2 == IF compatible THEN rate1 ELSE 0
         IN  [fmt |-> fmt,
              rate |-> rate2,
              format |-> SampleFormat(fmt.size, st.format),
              simple |-> IF rate2 > 0 THEN opened ELSE st.simple,
              switched |-> TRUE]

\* The fields of the object check_fmt_update works on.
PulseState ==
    [fmt |-> pulse_fmt, rate |-> pulse_rate, format |-> pulse_format,
     simple |-> pulse_simple, switched |-> pulse_switched]

PulseSet(st) ==
    /\ pulse_fmt' = st.fmt
    /\ pulse_rate' = st.rate
    /\ pulse_format' = st.format
    /\ pulse_simple' = st.simple
    /\ pulse_switched' = st.switched

\* The formats of unsupported size among those received.
PulseSeen(fmt) ==
    IF fmt.size \in {16, 24, 32} THEN pulse_seen ELSE pulse_seen \cup {fmt}

\* What PulseStreamData leaves alone.
notpulsevars == << lifevars, lockvars, memvars, vcpuvars, devvars, secvars,
                   irqvars, start_caller, scsivars >>

\* PulseStreamData::init succeeded; stream_fmt is ShmemStreamFmt::default(),
\* a value set outside this file: any format.
PulseStart ==
    /\ pulse_fmt \in StreamFmts
    /\ pulse_rate = AUDIO_SAMPLE_RATE_44KHZ
    /\ pulse_format = "S16le"
    /\ pulse_simple = TRUE
    /\ pulse_switched = FALSE
    /\ pulse_seen = {}
    /\ pulse_last = [op |-> "init", fmt |-> pulse_fmt, wrote |-> FALSE]

PulseInit ==
    /\ LifeInit
    /\ nr_vcpus = 0
    /\ LockIdle
    /\ MemIdle
    /\ VcpuIdle
    /\ DevIdle
    /\ SecIdle
    /\ IrqIdle
    /\ RunIdle
    /\ PulseStart
    /\ ScsiIdle

\* send(recv_data): check_fmt_update, then write unless the rate is 0 or
\* there is no connection (a failing write changes nothing).
send(fmt) ==
    \E compatible \in BOOLEAN, opened \in BOOLEAN :
        LET st == check_fmt_update(PulseState, fmt, compatible, opened) IN
        /\ PulseSet(st)
        /\ pulse_seen' = PulseSeen(fmt)
        /\ pulse_last' = [op |-> "send", fmt |-> fmt,
                          wrote |-> ~(st.rate = 0 \/ ~st.simple)]

\* receive(recv_data): check_fmt_update, then read unless there is no
\* connection; a failing read sets ss.rate to 0.
receive(fmt) ==
    \E compatible \in BOOLEAN, opened \in BOOLEAN, read_ok \in BOOLEAN :
        LET st == check_fmt_update(PulseState, fmt, compatible, opened) IN
        /\ PulseSet(IF st.simple /\ ~read_ok THEN [st EXCEPT !.rate = 0] ELSE st)
        /\ pulse_seen' = PulseSeen(fmt)
        /\ pulse_last' = [op |-> "receive", fmt |-> fmt, wrote |-> FALSE]

PulseNext ==
    \/ (\E fmt \in StreamFmts : send(fmt)) /\ UNCHANGED notpulsevars
    \/ (\E fmt \in StreamFmts : receive(fmt)) /\ UNCHANGED notpulsevars

PulseSpec == PulseInit /\ [][PulseNext]_vars

\* ---------------------------------------------------------------------
\* parse_scsi_device
\* ---------------------------------------------------------------------
\* The drive ids vm_config.drives may hold, and one it never holds.
DriveIds == {"drive-0", "drive-1"}

DriveArgs == DriveIds \cup {"drive-x", ""}

\* The `lun` argument: absent (-1), a u16 value, or no u16 at all (65536).
LunArgs == {-1, 0, SUPPORT_SCSI_MAX_LUN, SUPPORT_SCSI_MAX_LUN + 1, 65536}

\* The argument strings, by what the CmdParser makes of them: whether parse
\* accepts the string, the `drive` value ("" when absent), whether `id` and
\* `bus` are given, whether `scsi-id` is absent or a u8, and `lun`.
ScsiArgs ==
    [parse_ok : BOOLEAN, drive : DriveArgs, has_id : BOOLEAN,
     has_bus : BOOLEAN, target_ok : BOOLEAN, lun : LunArgs]

\* drive_arg.path_on_host of a drive of vm_config.drives.
PathOnHost(drive) == "/images/" \o drive

\* The checks of parse_scsi_device, in order: the first error, or "Ok".
ScsiCheck(args) ==
    CASE ~args.parse_ok -> "ParseError"
      [] args.drive = "" -> "FieldIsMissing_drive"
      [] ~args.has_id -> "FieldIsMissing_id"
      [] ~args.has_bus -> "FieldIsMissing_bus"
      [] ~args.target_ok -> "ParseError"
      [] args.lun = 65536 -> "ParseError"
      [] args.lun > SUPPORT_SCSI_MAX_LUN -> "IllegalValue_lun"
      [] OTHER -> "Ok"

\* vm_config.drives after the call: `vm_config.drives.remove(&scsi_drive)` is
\* reached only when no check has returned.
ScsiDrivesAfterRemoveFirst(drives, args) == drives \ {args.drive}

ScsiDrivesAfter(drives, args) ==
    IF ScsiCheck(args) = "Ok" THEN drives \ {args.drive} ELSE drives

\* What the call returns: the error, or the ScsiDevConfig, whose
\* path_on_host is only set `if let Some(drive_arg)` and else keeps the
\* default "".
ScsiResult(drives, args) ==
    IF ScsiCheck(args) # "Ok"
    THEN [kind |-> ScsiCheck(args), path_on_host |-> ""]
    ELSE [kind |-> "Ok",
          path_on_host |-> IF args.drive \in drives
                           THEN PathOnHost(args.drive) ELSE ""]

\* What parse_scsi_device leaves alone.
notscsivars == << lifevars, lockvars, memvars, vcpuvars, devvars, secvars,
                  irqvars, start_caller, pulsevars >>

\* vm_config as the drive arguments left it.
ScsiStart ==
    /\ scsi_drives \in SUBSET DriveIds
    /\ scsi_args = [parse_ok |-> TRUE, drive |-> "", has_id |-> FALSE,
                    has_bus |-> FALSE, target_ok |-> TRUE, lun |-> -1]
    /\ scsi_result = [kind |-> "None", path_on_host |-> ""]
    /\ scsi_calls = 0

ScsiInit ==
    /\ LifeInit
    /\ nr_vcpus = 0
    /\ LockIdle
    /\ MemIdle
    /\ VcpuIdle
    /\ DevIdle
    /\ SecIdle
    /\ IrqIdle
    /\ RunIdle
    /\ PulseIdle
    /\ ScsiStart

\* parse_scsi_device(vm_config, drive_config)
parse_scsi_device(args) ==
    /\ scsi_calls < MaxCalls
    /\ scsi_calls' = scsi_calls + 1
    /\ scsi_args' = args
    /\ scsi_result' = ScsiResult(scsi_drives, args)
    /\ scsi_drives' = ScsiDrivesAfter(scsi_drives, args)

ScsiNext ==
    (\E args \in ScsiArgs : parse_scsi_device(args)) /\ UNCHANGED notscsivars

ScsiSpec == ScsiInit /\ [][ScsiNext]_vars

\* ---------------------------------------------------------------------
\* Vocabulary of the properties
\* ---------------------------------------------------------------------
\* A step of the controlling thread that enters vm_state_transfer.
EnterStep == pc = "idle" /\ ctlvars' # ctlvars

\* The (old_state, new_state) pairs the lifecycle allows.
LegalPairs ==
    {<< "Created", "Running" >>, << "Running", "Paused" >>,
     << "Paused", "Running" >>} \cup {<< s, "Shutdown" >> : s \in KvmVmState}

\* The edges along which the machine state may move.
LifecycleEdges ==
    {<< "Created", "Running" >>, << "Running", "Paused" >>,
     << "Paused", "Running" >>, << "Created", "Shutdown" >>,
     << "Running", "Shutdown" >>, << "Paused", "Shutdown" >>}

\* The call in progress (or the last one) passed the state check.
CheckPassed == entry_state = old_state

\* The trace of a loop that invoked op on vCPUs 0 .. n-1, once each, in order.
OpTrace(op, n) == [j \in 1 .. n |-> << op, j - 1 >>]

\* The results that report a failed per-vCPU operation.
VcpuFailedKinds ==
    {"VcpuFailed_start", "VcpuFailed_pause", "VcpuFailed_resume",
     "VcpuFailed_destroy"}

\* The thread of vCPU c started on barrier b has called wait() on it.
Arrived(b, c) == thread[b][c].st \in {"waiting", "guest"}

AllArrived(b) == \A c \in CpuIds : c < nr_vcpus => Arrived(b, c)

\* ---------------------------------------------------------------------
\* C1: a call made while the current state differs from old_state fails with
\* the state-check error, leaves the state variable as it was and invokes no
\* per-vCPU operation, whatever (current, old_state, new_state) is.
\* ---------------------------------------------------------------------
C1_MismatchRejected ==
    [][ (EnterStep /\ vm_state # old_state')
          => /\ result' = ErrStateCheck
             /\ pc' = "idle"
             /\ trace' = << >>
             /\ UNCHANGED << vm_state, cpu_state, thread, barrier,
                             nr_barriers >> ]_vars

C1_Witness ==
    /\ pc = "idle"
    /\ result = ErrStateCheck
    /\ vm_state = "Paused"
    /\ old_state = "Running"
    /\ new_state = "Paused"

\* ---------------------------------------------------------------------
\* C2: a call that passes the state check is dispatched to a handler exactly
\* for the pairs (Created,Running), (Running,Paused), (Paused,Running) and
\* (any,Shutdown), and then returns Ok unless a per-vCPU operation fails;
\* every other pair is rejected as illegal, with no per-vCPU operation and
\* the state unchanged.
\* ---------------------------------------------------------------------
C2_LegalPairs ==
    /\ [][ (EnterStep /\ vm_state = old_state')
             => IF << old_state', new_state' >> \in LegalPairs
                THEN pc' # "idle" /\ result' = NoResult
                ELSE /\ result' = ErrIllegal
                     /\ pc' = "idle"
                     /\ trace' = << >>
                     /\ UNCHANGED << vm_state, cpu_state, thread, barrier,
                                     nr_barriers >> ]_vars
    /\ [](  (pc = "idle" /\ CheckPassed /\ result # NoResult)
             => IF << old_state, new_state >> \in LegalPairs
                THEN result = OkResult \/ result.kind \in VcpuFailedKinds
                ELSE result = ErrIllegal /\ vm_state = entry_state )

C2_Witness ==
    /\ pc = "idle"
    /\ CheckPassed
    /\ result = ErrIllegal
    /\ old_state = "Created"
    /\ new_state = "Paused"
    /\ nr_vcpus = MaxCpus

\* ---------------------------------------------------------------------
\* C3: the state variable only moves along Created->Running,
\* Running->Paused, Paused->Running and {Created,Running,Paused}->Shutdown:
\* Shutdown is terminal and Created is never re-entered.
\* ---------------------------------------------------------------------
C3_LifecycleEdges ==
    [][ vm_state' # vm_state
          => << vm_state, vm_state' >> \in LifecycleEdges ]_vars

C3_Witness ==
    /\ vm_state = "Shutdown"
    /\ entry_state = "Paused"
    /\ result = OkResult

\* ---------------------------------------------------------------------
\* C4: in the Created->Running transition with N vCPUs the controlling call
\* does not return before all N vCPU threads have arrived at the barrier of
\* size N+1, and no vCPU thread is past the barrier before the controlling
\* thread and every other vCPU thread have arrived.
\* ---------------------------------------------------------------------
C4_StartupRendezvous ==
    /\ (pc = "post" /\ old_state = "Created" /\ new_state = "Running")
          => AllArrived(cur_barrier)
    /\ (pc = "idle" /\ result = OkResult /\ old_state = "Created"
          /\ new_state = "Running")
          => AllArrived(cur_barrier)
    /\ \A b \in BarrierIds, c \in CpuIds :
          thread[b][c].st = "guest"
              => /\ b \in ctl_arrived
                 /\ AllArrived(b)

C4_Witness ==
    /\ nr_vcpus = MaxCpus
    /\ pc = "idle"
    /\ result = OkResult
    /\ old_state = "Created"
    /\ new_state = "Running"
    /\ \E c \in CpuIds : thread[cur_barrier][c].st = "guest"
    /\ \E c \in CpuIds : thread[cur_barrier][c].st = "waiting"

\* ---------------------------------------------------------------------
\* C5 (as stated): the state variable never reads Running while some vCPU
\* thread has not yet arrived at the startup barrier.
\* ---------------------------------------------------------------------
C5_RunningOnlyAfterArrival ==
    vm_state = "Running" => AllArrived(cur_barrier)

\* C5 (amended): the state variable reads Running only after CPU::start has
\* succeeded on every vCPU, so every vCPU thread exists; it is written before
\* the controlling thread waits at the barrier, and once the call has
\* returned with the state Running every vCPU thread has arrived.
C5_RunningAfterAllStarted ==
    /\ vm_state = "Running"
          => \A c \in CpuIds : c < nr_vcpus => thread[cur_barrier][c].st # "none"
    /\ (vm_state = "Running" /\ pc \in {"vm_start", "barrier_wait"})
          => (pc = "barrier_wait" /\ cur_barrier \notin ctl_arrived)
    /\ (vm_state = "Running" /\ pc \notin {"vm_start", "barrier_wait",
                                           "barrier_blocked"})
          => AllArrived(cur_barrier)

C5_Witness ==
    /\ vm_state = "Running"
    /\ pc = "barrier_wait"
    /\ nr_vcpus = MaxCpus
    /\ thread[cur_barrier][0].st = "waiting"
    /\ thread[cur_barrier][1].st = "spawned"

\* ---------------------------------------------------------------------
\* C6: Running->Paused and Paused->Running invoke the per-vCPU operation in
\* ascending index order and stop at the first failure: when vCPU k fails,
\* the operation was invoked once on each of 0..k and on none of k+1..N-1,
\* the error names k, and vCPUs 0..k-1 stay in their new sub-state.
\* ---------------------------------------------------------------------
InOrderStopAtFirstFailure(h, op, sub) ==
    /\ \E n \in 0 .. nr_vcpus : trace = OpTrace(op, n)
    /\ pc = h
          => /\ Len(trace) = cpu_index
             /\ \A c \in CpuIds : c < cpu_index => cpu_state[c] = sub
    /\ pc = "post" => Len(trace) = nr_vcpus
    /\ pc = "idle"
          => /\ result.kind \in {"Ok", "VcpuFailed_" \o op}
             /\ result.kind = "Ok" => Len(trace) = nr_vcpus
             /\ result.kind = "VcpuFailed_" \o op
                   => /\ result.index \in 0 .. nr_vcpus - 1
                      /\ Len(trace) = result.index + 1
                      /\ \A c \in CpuIds : c < result.index => cpu_state[c] = sub

C6_PauseResumeInOrder ==
    /\ (CheckPassed /\ old_state = "Running" /\ new_state = "Paused")
          => InOrderStopAtFirstFailure("vm_pause", "pause", "Paused")
    /\ (CheckPassed /\ old_state = "Paused" /\ new_state = "Running")
          => InOrderStopAtFirstFailure("vm_resume", "resume", "Running")

C6_Witness ==
    /\ pc = "idle"
    /\ CheckPassed
    /\ old_state = "Running"
    /\ new_state = "Paused"
    /\ nr_vcpus = MaxCpus
    /\ result = ErrVcpu("pause", MaxCpus - 2)
    /\ cpu_state[MaxCpus - 1] = "Running"

\* ---------------------------------------------------------------------
\* C7: when a pause, resume or destroy step fails on some vCPU, the call
\* returns an error and the state variable keeps the value it had before the
\* call; a retry of the same pair and a destroy from that old state then
\* both pass the state check and are dispatched.
\* ---------------------------------------------------------------------
FailedMidTransition ==
    /\ pc = "idle"
    /\ result.kind \in {"VcpuFailed_pause", "VcpuFailed_resume",
                        "VcpuFailed_destroy"}

C7_FailedTransitionKeepsState ==
    /\ [](FailedMidTransition
            => vm_state = entry_state /\ vm_state = old_state)
    /\ [][ (FailedMidTransition /\ EnterStep /\ old_state' = old_state
              /\ new_state' \in {new_state, "Shutdown"})
             => /\ result' = NoResult
                /\ pc' \in {"vm_pause", "vm_resume", "vm_destroy"}
                /\ cpu_index' = 0 ]_vars

C7_Witness ==
    /\ pc = "vm_pause"
    /\ cpu_index = 0
    /\ vm_state = "Running"
    /\ nr_vcpus = MaxCpus
    /\ cpu_state[0] = "Paused"
    /\ cpu_state[MaxCpus - 1] = "Running"

\* ---------------------------------------------------------------------
\* C8: when starting vCPU k fails in Created->Running, the call returns an
\* error, the state variable remains Created, vCPUs k+1..N-1 are never
\* started, and none of the threads of vCPUs 0..k-1 ever gets past the
\* startup barrier.
\* ---------------------------------------------------------------------
\* The vm_start that created barrier b failed before the barrier wait.
StartFailed(b) ==
    /\ b <= nr_barriers
    /\ b \notin ctl_arrived
    /\ ~(b = cur_barrier /\ pc \in {"vm_start", "barrier_wait"})

C8_FailedStartNotStarted ==
    /\ (pc = "idle" /\ result.kind = "VcpuFailed_start")
          => /\ vm_state = "Created"
             /\ result.index \in 0 .. nr_vcpus - 1
             /\ trace = OpTrace("start", result.index + 1)
             /\ StartFailed(cur_barrier)
             /\ \A c \in CpuIds :
                   thread[cur_barrier][c].st # "none" <=> c < result.index
    /\ \A b \in BarrierIds :
          StartFailed(b)
              => /\ \A c \in CpuIds : thread[b][c].st \in {"none", "spawned",
                                                           "waiting"}
                 /\ \E c \in CpuIds : c < nr_vcpus /\ thread[b][c].st = "none"

C8_Witness ==
    /\ nr_vcpus = MaxCpus
    /\ StartFailed(1)
    /\ \A c \in CpuIds : c < MaxCpus - 1 => thread[1][c].st = "waiting"
    /\ thread[1][MaxCpus - 1].st = "none"
    /\ vm_state = "Running"
    /\ thread[2][0].st = "guest"

\* ---------------------------------------------------------------------
\* C9: vm_state_transfer(s, Shutdown) called in state s is dispatched to
\* destroy for every s, invokes destroy on the vCPUs in ascending index
\* order and ends with state Shutdown when all succeed; when vCPU k fails it
\* stops there reporting k, and a retry is accepted and starts again from
\* vCPU 0.
\* ---------------------------------------------------------------------
C9_DestroyFromAnyState ==
    /\ []( (CheckPassed /\ new_state = "Shutdown")
             => /\ \E n \in 0 .. nr_vcpus : trace = OpTrace("destroy", n)
                /\ pc \in {"idle", "vm_destroy", "post"}
                /\ pc = "vm_destroy" => Len(trace) = cpu_index
                /\ pc = "post" => Len(trace) = nr_vcpus /\ vm_state = "Shutdown"
                /\ pc = "idle"
                      => /\ result.kind \in {"Ok", "VcpuFailed_destroy"}
                         /\ result.kind = "Ok"
                               => /\ Len(trace) = nr_vcpus
                                  /\ vm_state = "Shutdown"
                                  /\ \A c \in CpuIds :
                                        c < nr_vcpus => cpu_state[c] = "Stopped"
                         /\ result.kind = "VcpuFailed_destroy"
                               => /\ Len(trace) = result.index + 1
                                  /\ vm_state = entry_state )
    /\ [][ (EnterStep /\ old_state' = vm_state /\ new_state' = "Shutdown")
             => /\ pc' = "vm_destroy"
                /\ cpu_index' = 0
                /\ trace' = << >> ]_vars

C9_Witness ==
    /\ pc = "vm_destroy"
    /\ cpu_index = 1
    /\ nr_vcpus = MaxCpus
    /\ entry_state = "Running"
    /\ cpu_state[0] = "Stopped"
    /\ cpu_state[1] = "Stopped"

\* ---------------------------------------------------------------------
\* C10: whenever vm_state_transfer returns success the state variable equals
\* new_state, and each of the four handlers, when it succeeds, has left the
\* state equal to new_state, so the "transform failed" error is never raised.
\* ---------------------------------------------------------------------
C10_SuccessMeansNewState ==
    /\ (pc = "idle" /\ result = OkResult) => vm_state = new_state
    /\ pc = "post" => vm_state = new_state
    /\ result # ErrTransformFailed

C10_Witness ==
    /\ pc = "idle"
    /\ result = OkResult
    /\ old_state = "Paused"
    /\ new_state = "Running"
    /\ vm_state = "Running"
    /\ nr_vcpus = MaxCpus

\* ---------------------------------------------------------------------
\* C11: when the vCPU threads are scheduled, a Created->Running transition
\* that has been entered ends: unless a CPU::start fails, it returns success
\* with the state Running (the rendezvous of the N+1 threads neither
\* deadlocks nor loses a wake-up), for every N from 0 to the bound.
\* ---------------------------------------------------------------------
C11_StartReturns ==
    (pc = "vm_start")
        ~> (/\ pc = "idle"
            /\ \/ result = OkResult /\ vm_state = "Running"
               \/ result.kind = "VcpuFailed_start")

C11_Witness ==
    /\ pc = "idle"
    /\ result = OkResult
    /\ vm_state = "Running"
    /\ nr_vcpus = MaxCpus
    /\ nr_barriers = MaxStarts
    /\ \A c \in CpuIds : thread[cur_barrier][c].st = "guest"

\* ---------------------------------------------------------------------
\* C12 (as stated): when two callers request the same transition, each
\* holding the state lock around its whole call and every per-vCPU operation
\* succeeding, exactly one call performs the per-vCPU operations and
\* succeeds; the other fails the state check and touches no vCPU.
\* ---------------------------------------------------------------------
RaceOver == phase = "race" /\ \A c \in Callers : caller_pc[c] = "done"

\* Caller c performed the operations and succeeded; the other caller d was
\* rejected by the state check without touching a vCPU.
OneWinner(c, d) ==
    /\ caller_result[c] = OkResult
    /\ Len(caller_ops[c]) = nr_vcpus
    /\ caller_result[d] = ErrStateCheck
    /\ caller_ops[d] = << >>

C12_ExactlyOneSucceeds ==
    (RaceOver /\ req.from = req.old /\ << req.old, req.new >> \in LegalPairs)
        => (OneWinner(1, 2) \/ OneWinner(2, 1))

\* C12 (amended): the same, for the transitions that leave their old state:
\* Created->Running, Running->Paused, Paused->Running and s->Shutdown with
\* s other than Shutdown. (Shutdown, Shutdown) is accepted from Shutdown by
\* both callers.
C12_ExactlyOneLeavesOldState ==
    /\ (RaceOver /\ req.from = req.old
          /\ << req.old, req.new >> \in LifecycleEdges)
          => (OneWinner(1, 2) \/ OneWinner(2, 1))
    /\ (phase = "race" /\ lock_owner = 0) => pc = "idle"
    /\ (RaceOver /\ req.from = "Shutdown" /\ req.old = "Shutdown"
          /\ req.new = "Shutdown")
          => \A c \in Callers :
                caller_result[c] = OkResult /\ Len(caller_ops[c]) = nr_vcpus

C12_Witness ==
    /\ RaceOver
    /\ req = [old |-> "Running", new |-> "Paused", from |-> "Running"]
    /\ nr_vcpus = MaxCpus
    /\ OneWinner(2, 1)
    /\ vm_state = "Paused"

\* ---------------------------------------------------------------------
\* Vocabulary of the init_memory properties
\* ---------------------------------------------------------------------
\* The positions in mem_events at which something named `name` happened.
MemEventsAt(name) ==
    {i \in 1 .. Len(mem_events) : mem_events[i][1] = name}

MemFailed == mem_pc = "done" /\ mem_result.kind \notin {"None", "Ok"}

\* ---------------------------------------------------------------------
\* C13: init_memory is all-or-nothing: when mapping or inserting a RAM range
\* fails, the address space holds none of the RAM regions the call added.
\* ---------------------------------------------------------------------
C13_AllOrNothing ==
    (mem_pc = "done" /\ mem_result.kind \in {"MmapErr", "RegMemRegionErr"})
        => mem_regions = {}

\* ---------------------------------------------------------------------
\* C14: init_memory registers the address space for migration exactly once
\* if and only if it returns success, and only after every RAM range it maps
\* has been inserted; after any failure (a listener, the host mmap, a region
\* insertion) the address space is not registered.
\* ---------------------------------------------------------------------
C14_RegisteredIffSuccess ==
    /\ mem_registered \in {0, 1}
    /\ mem_registered = Cardinality(MemEventsAt("register"))
    /\ mem_pc = "done" => (mem_registered = 1 <=> mem_result = MemOk)
    /\ MemFailed => mem_registered = 0
    /\ mem_registered = 1
          => /\ ~mem_in.is_migrate
                   => /\ mem_regions = 0 .. mem_in.ranges - 1
                      /\ \A i \in MemEventsAt("add"), j \in MemEventsAt("register") :
                            i < j
             /\ mem_pc \in {"return", "done"}

C14_Witness ==
    /\ mem_pc = "done"
    /\ mem_result = MemOk
    /\ mem_registered = 1
    /\ ~mem_in.is_migrate
    /\ mem_in.ranges = MaxRanges
    /\ mem_regions = 0 .. MaxRanges - 1

\* ---------------------------------------------------------------------
\* C15: the memory listener (and on x86_64 the I/O listener) is registered
\* before any RAM is mapped or added, so every region addition of the call
\* follows the listener registration; when a listener registration fails no
\* region is added.
\* ---------------------------------------------------------------------
C15_ListenerBeforeRam ==
    /\ \A i \in MemEventsAt("mmap") \cup MemEventsAt("add") :
          /\ \E j \in MemEventsAt("mem_listener") : j < i
          /\ mem_in.arch = "x86_64"
                => \E j \in MemEventsAt("io_listener") : j < i
    /\ mem_regions # {} => MemEventsAt("mem_listener") # {}
    /\ mem_in.arch # "x86_64" => MemEventsAt("io_listener") = {}
    /\ (mem_pc = "done"
          /\ mem_result.kind \in {"MemListenerErr", "IoListenerErr"})
          => mem_regions = {} /\ MemEventsAt("add") = {}

C15_Witness ==
    /\ mem_in.arch = "x86_64"
    /\ mem_pc = "add"
    /\ mem_index = 2
    /\ mem_regions = {0, 1}
    /\ mem_events[1] = MemEvent("mem_listener", -1)
    /\ mem_events[2] = MemEvent("io_listener", -1)

\* ---------------------------------------------------------------------
\* C16: with is_migrate true no host memory is mapped and no RAM subregion
\* is added, while the listeners are still registered and the address space
\* is still registered for migration.
\* ---------------------------------------------------------------------
C16_MigrateSkipsRam ==
    mem_in.is_migrate
        => /\ mem_regions = {}
           /\ MemEventsAt("mmap") = {}
           /\ MemEventsAt("add") = {}
           /\ mem_pc = "done"
                 => mem_result.kind \in {"Ok", "MemListenerErr", "IoListenerErr"}
           /\ mem_result = MemOk
                 => /\ mem_registered = 1
                    /\ MemEventsAt("mem_listener") # {}
                    /\ mem_in.arch = "x86_64" => MemEventsAt("io_listener") # {}

C16_Witness ==
    /\ mem_in.is_migrate
    /\ mem_in.arch = "x86_64"
    /\ mem_in.ranges = MaxRanges
    /\ mem_pc = "done"
    /\ mem_result = MemOk
    /\ mem_registered = 1
    /\ Len(mem_events) = 3

\* The sequence 0, 1, .., n-1.
Ascending(n) == [i \in 1 .. n |-> i - 1]

\* The creation loop of init_vcpu is behind.
VcpuCreated == vcpu_pc \in {"realize", "return"} \/ vcpu_result.kind \in {"Ok", "RealizeFailed"}

\* C17: init_vcpu called with count N and at least N fds creates exactly N
\* CPUs, with indices 0..N-1 in order and CPU i bound to fds[i], and registers
\* each exactly once with the MigrationManager, with or without a boot
\* configuration (the creation loop never panics and never depends on it).
C17_CreatesAndRegistersAll ==
    (Len(vcpu_in.fds) >= vcpu_in.nr_cpus) =>
        /\ vcpu_result.kind # "Panic"
        /\ (vcpu_pc = "done" /\ vcpu_result.kind # "None") => VcpuCreated
        /\ VcpuCreated =>
              /\ Len(vcpu_cpus) = vcpu_in.nr_cpus
              /\ \A i \in 0 .. vcpu_in.nr_cpus - 1 :
                    /\ vcpu_cpus[i + 1].id = i
                    /\ vcpu_cpus[i + 1].fd = vcpu_in.fds[i + 1]
              /\ vcpu_migration = Ascending(vcpu_in.nr_cpus)

C17_Witness ==
    /\ vcpu_result = VcpuOk
    /\ vcpu_in.nr_cpus = MaxCpus
    /\ ~vcpu_in.boot_cfg
    /\ Len(vcpu_in.fds) > vcpu_in.nr_cpus
    /\ vcpu_in.fds[1] > vcpu_in.fds[2]
    /\ Len(vcpu_migration) = MaxCpus

\* C18: with a boot configuration, realize is applied in ascending index
\* order and only once all N vCPUs are created and registered; when vCPU k
\* is the first to fail, realize was invoked on exactly 0..k, the error names
\* k, no CPU list is returned, 0..k-1 are initialized and all N registered.
C18_RealizeInOrderThenAbort ==
    /\ vcpu_realize = Ascending(Len(vcpu_realize))
    /\ (vcpu_realize # << >>) =>
          /\ vcpu_in.boot_cfg
          /\ Len(vcpu_cpus) = vcpu_in.nr_cpus
          /\ vcpu_migration = Ascending(vcpu_in.nr_cpus)
    /\ (vcpu_in.boot_cfg /\ vcpu_result = VcpuOk) =>
          /\ vcpu_realize = Ascending(vcpu_in.nr_cpus)
          /\ vcpu_initialized = 0 .. vcpu_in.nr_cpus - 1
    /\ (vcpu_result.kind = "RealizeFailed") =>
          LET k == Len(vcpu_realize) - 1 IN
          /\ k \in 0 .. vcpu_in.nr_cpus - 1
          /\ vcpu_result.index = k
          /\ vcpu_result # VcpuOk
          /\ vcpu_initialized = 0 .. k - 1
          /\ vcpu_migration = Ascending(vcpu_in.nr_cpus)
          /\ vcpu_pc = "done"

C18_Witness ==
    /\ vcpu_result.kind = "RealizeFailed"
    /\ vcpu_in.nr_cpus = MaxCpus
    /\ Len(vcpu_realize) = 2
    /\ vcpu_initialized = {0}

\* The add operations of one category for a list of n entries, in list order.
CategoryOps(stage, n) == [i \in 1 .. n |-> [stage |-> stage, index |-> i - 1]]

\* The generic devices up to the first one add_devices does not know.
KnownPrefix(devices) ==
    IF \E i \in 1 .. Len(devices) : devices[i] # "vhost-vsock-device"
    THEN (CHOOSE i \in 1 .. Len(devices) :
              /\ devices[i] # "vhost-vsock-device"
              /\ \A j \in 1 .. i - 1 : devices[j] = "vhost-vsock-device") - 1
    ELSE Len(devices)

\* The add operations a configuration asks for, in the order of the contract.
ExpectedPlan(cfg) ==
    CategoryOps("RTC", 1)
    \o CategoryOps("serial", IF cfg.serial THEN 1 ELSE 0)
    \o CategoryOps("pflash", cfg.pflashs)
    \o CategoryOps("block", cfg.drives)
    \o CategoryOps("net", cfg.nets)
    \o CategoryOps("console", cfg.consoles)
    \o CategoryOps("balloon", IF cfg.balloon THEN 1 ELSE 0)
    \o CategoryOps("rng", IF cfg.rng THEN 1 ELSE 0)
    \o CategoryOps("device", KnownPrefix(cfg.devices))

\* The position of a category in the contract's order.
CategoryRank(stage) ==
    CASE stage = "RTC" -> 1
      [] stage = "serial" -> 2
      [] stage = "pflash" -> 3
      [] stage = "block" -> 4
      [] stage = "net" -> 5
      [] stage = "console" -> 6
      [] stage = "balloon" -> 7
      [] stage = "rng" -> 8
      [] stage = "device" -> 9

IsPrefix(s, t) == Len(s) <= Len(t) /\ s = SubSeq(t, 1, Len(s))

DevFailed == dev_result.kind \in {"AddDevErr", "HookErr", "Unsupported"}

\* C19: add_devices invokes the add operations in the fixed order RTC,
\* serial, pflash, block, net, console, balloon, rng, generic devices, each
\* list in list order and only for what the configuration holds: the
\* operations invoked so far are a prefix of that plan (all of it when
\* add_devices returns Ok), and no operation of a later category precedes one
\* of an earlier category.
C19_FixedOrder ==
    /\ IsPrefix(dev_trace, ExpectedPlan(dev_cfg))
    /\ (dev_result = DevOk) => dev_trace = ExpectedPlan(dev_cfg)
    /\ \A i, j \in 1 .. Len(dev_trace) :
          i < j => CategoryRank(dev_trace[i].stage) <= CategoryRank(dev_trace[j].stage)

C19_Witness ==
    /\ dev_result = DevOk
    /\ dev_cfg.serial /\ dev_cfg.balloon /\ dev_cfg.rng
    /\ dev_cfg.pflashs = 1
    /\ dev_cfg.drives = MaxList
    /\ dev_cfg.nets = MaxList
    /\ dev_cfg.consoles = 1
    /\ Len(dev_cfg.devices) = MaxList
    /\ Len(dev_trace) = 6 + 3 * MaxList

\* C20: add_devices stops at the first failing add operation: what is
\* realized then is exactly the operations of the plan before the failing
\* one, a failing block drive is reported as "block", and once add_devices has
\* failed no operation is invoked and no realized device is removed.
C20_StopsAtFirstFailure ==
    /\ [](/\ IsPrefix(dev_realized, ExpectedPlan(dev_cfg))
          /\ DevFailed =>
                /\ dev_stage = "done"
                /\ (dev_result.kind = "Unsupported") => dev_trace = dev_realized
                /\ (dev_result.kind # "Unsupported") =>
                      /\ dev_trace # << >>
                      /\ dev_realized = SubSeq(dev_trace, 1, Len(dev_trace) - 1)
                      /\ IsPrefix(dev_trace, ExpectedPlan(dev_cfg))
                      /\ (dev_trace[Len(dev_trace)].stage = "block") =>
                            dev_result = [kind |-> "AddDevErr", label |-> "block"])
    /\ [][/\ IsPrefix(dev_realized, dev_realized')
          /\ DevFailed => UNCHANGED << dev_trace, dev_realized, dev_result >>]_vars

C20_Witness ==
    /\ dev_result = [kind |-> "AddDevErr", label |-> "block"]
    /\ dev_cfg.serial
    /\ dev_cfg.pflashs = 1
    /\ dev_cfg.drives = MaxList
    /\ dev_cfg.nets = 1
    /\ dev_trace[Len(dev_trace)] = [stage |-> "block", index |-> MaxList - 1]
    /\ Len(dev_realized) = 2 + MaxList

\* An add operation has failed: the last operation invoked is the failing one.
AddOpFailed == dev_result.kind \in {"AddDevErr", "HookErr"}

\* C21: for every category of the pipeline (RTC, serial, pflash, block, net,
\* console, balloon, rng, vsock) a failure of the category's add operation is
\* returned wrapped with ErrorKind::AddDevErr carrying the category's label.
C21_EveryFailureLabelled ==
    AddOpFailed =>
        /\ dev_trace # << >>
        /\ dev_result.kind = "AddDevErr"
        /\ dev_result.label =
              (IF dev_trace[Len(dev_trace)].stage = "device"
               THEN "vsock" ELSE dev_trace[Len(dev_trace)].stage)

\* The configuration holds a generic device of a type add_devices does not know.
HasUnknownDevice ==
    \E i \in 1 .. Len(dev_cfg.devices) :
        dev_cfg.devices[i] # "vhost-vsock-device"

\* C22: a configuration whose generic device list holds an unrecognized type
\* never makes add_devices return Ok; the Unsupported error names that type,
\* and no device has been realized when it is returned.
C22_UnsupportedRejectedEarly ==
    /\ HasUnknownDevice => dev_result # DevOk
    /\ (dev_result.kind = "Unsupported") =>
          /\ \E i \in 1 .. Len(dev_cfg.devices) :
                /\ dev_cfg.devices[i] # "vhost-vsock-device"
                /\ dev_result.label = dev_cfg.devices[i]
          /\ dev_realized = << >>

\* The set of the rules of a list.
RuleSet(rules) == {rules[i] : i \in 1 .. Len(rules)}

\* C23: the rule list register_seccomp installs is the base allow-list
\* followed by exactly the balloon rules when balloon_enable is true, and
\* exactly the base allow-list when it is false (so the rules installed with
\* the balloon include those installed without it, and the rules added are
\* the balloon's); register_seccomp returns an error exactly when installing
\* the filter failed, and then nothing is installed.
C23_BalloonExtendsBase ==
    /\ (sec_result = SecOk) =>
          /\ sec_in.balloon_enable => sec_installed = sec_in.base \o BalloonRules
          /\ ~sec_in.balloon_enable => sec_installed = sec_in.base
          /\ RuleSet(sec_in.base) \subseteq RuleSet(sec_installed)
          /\ SubSeq(sec_installed, Len(sec_in.base) + 1, Len(sec_installed))
                = (IF sec_in.balloon_enable THEN BalloonRules ELSE << >>)
    /\ (sec_result.kind = "Err") =>
          /\ sec_result = SecErr
          /\ sec_installed = << >>
          /\ sec_pc = "done"
    /\ (sec_pc = "done" /\ sec_installed = << >> /\ sec_filter # << >>) =>
          sec_result = SecErr

C23_Witness ==
    /\ sec_result = SecOk
    /\ sec_in.balloon_enable
    /\ Len(sec_in.base) = MaxRules
    /\ Len(sec_installed) = MaxRules + Len(BalloonRules)

C23_WitnessErr ==
    /\ sec_result = SecErr
    /\ sec_in.balloon_enable
    /\ Len(sec_filter) = MaxRules + Len(BalloonRules)

\* The platform has an external interrupt controller.
HasIrqChip == irq_in.arch = "aarch64" /\ irq_in.irq_chip

\* C24: in the Running->Paused transition on a platform with an external
\* interrupt controller, the controller is stopped only after every vCPU has
\* been paused successfully and before the state is set to Paused (it has
\* been stopped exactly once when the state is set); when a vCPU fails to
\* pause, the controller is not stopped.
C24_IrqStopAfterAllPaused ==
    /\ [](HasIrqChip =>
            /\ irq_stops > 0 =>
                  /\ trace = OpTrace("pause", nr_vcpus)
                  /\ \A c \in 0 .. nr_vcpus - 1 : cpu_state[c] = "Paused"
            /\ (result.kind = "VcpuFailed_pause") => irq_stops = 0)
    /\ [][HasIrqChip =>
            /\ (irq_stops' > irq_stops) =>
                  vm_state = "Running" /\ vm_state' = "Running"
            /\ (vm_state = "Running" /\ vm_state' = "Paused") => irq_stops = 1]_vars

C24_Witness ==
    /\ HasIrqChip
    /\ nr_vcpus = MaxCpus
    /\ vm_state = "Paused"
    /\ irq_stops = 1
    /\ result = OkResult

\* The state the contract of vm_start asks for.
StartedAs(p) == IF p THEN "Paused" ELSE "Running"

\* vm_start is past its loop.
StartLoopOver == pc \in {"barrier_wait", "barrier_blocked"}

\* C25: vm_start called with paused=true starts every vCPU with the paused
\* flag, sets the state to Paused and never to Running, and returns only
\* after all vCPU threads have reached the N+1 barrier; with paused=false it
\* sets Running. vm_state_transfer starts vCPUs unpaused only, and rejects
\* (Created, Paused) as illegal.
C25_StartPausedOrRunning ==
    /\ [](/\ (start_caller = "run" /\ StartLoopOver) =>
                vm_state = StartedAs(paused)
          /\ (start_caller = "run" /\ pc = "idle" /\ result = OkResult) =>
                /\ vm_state = StartedAs(paused)
                /\ AllArrived(cur_barrier)
                /\ trace = OpTrace("start", nr_vcpus)
                /\ \A c \in 0 .. nr_vcpus - 1 : cpu_state[c] = StartedAs(paused)
          /\ (start_caller = "vm_state_transfer"
                /\ pc \in {"vm_start", "barrier_wait", "barrier_blocked"}) =>
                ~paused
          /\ (start_caller = "vm_state_transfer" /\ pc = "idle"
                /\ old_state = "Created" /\ new_state = "Paused"
                /\ entry_state = "Created") =>
                result = ErrIllegal /\ vm_state = "Created")
    /\ [][(start_caller' = "run" /\ paused' /\ vm_state' # vm_state) =>
            vm_state' = "Paused"]_vars

C25_Witness ==
    /\ start_caller = "run"
    /\ paused
    /\ pc = "idle"
    /\ result = OkResult
    /\ nr_vcpus = MaxCpus
    /\ vm_state = "Paused"

C25_WitnessIllegal ==
    /\ start_caller = "vm_state_transfer"
    /\ old_state = "Created" /\ new_state = "Paused"
    /\ result = ErrIllegal

\* A sample size PulseAudio is not given a format for.
UnsupportedSize(fmt) == fmt.size \notin {16, 24, 32}

\* The step is a send carrying fmt, and it wrote to the backend or not.
SendStep(fmt, wrote) ==
    pulse_last' = [op |-> "send", fmt |-> fmt, wrote |-> wrote]
    /\ pulsevars' # pulsevars

ScsiCall == scsi_calls' = scsi_calls + 1

\* C27: parse_scsi_device removes exactly the drive entry named by the
\* `drive` argument from vm_config.drives when it succeeds, and leaves
\* vm_config.drives as it was on every error return.
C27_DrivesFrame ==
    [][ScsiCall =>
          /\ (scsi_result'.kind = "Ok") =>
                scsi_drives' = scsi_drives \ {scsi_args'.drive}
          /\ (scsi_result'.kind # "Ok") => scsi_drives' = scsi_drives]_vars

C27_Witness ==
    /\ scsi_calls = MaxCalls
    /\ scsi_drives = {"drive-1"}
    /\ scsi_args.drive = "drive-0"
    /\ scsi_args.lun = SUPPORT_SCSI_MAX_LUN
    /\ scsi_result = [kind |-> "Ok", path_on_host |-> PathOnHost("drive-0")]

\* C28: a scsi device whose `drive` argument names a drive that is not in
\* vm_config.drives (never there, or consumed by an earlier call) is rejected
\* with an error; no ScsiDevConfig with an empty path_on_host is returned.
C28_UnknownDriveRejected ==
    /\ []((scsi_result.kind = "Ok") => scsi_result.path_on_host # "")
    /\ [][(ScsiCall /\ scsi_args'.drive \notin scsi_drives) =>
            scsi_result'.kind # "Ok"]_vars

====
